---- MODULE Spec2Model ----
(***************************************************************************)
(* Finite-field calculator: the modular polynomial ring (ModularPolynomial *)
(* in modular_polynomial.py), the irreducible polynomial finder            *)
(* (irreducible_finder.py) and the field calculator (calculator_engine.py).*)
(*                                                                         *)
(* A Python list [c0, c1, ...] is the sequence <<c0, c1, ...>>: list index *)
(* i is sequence index i + 1.  A ModularPolynomial object is the record    *)
(* [modulus |-> m, coefficients |-> <<...>>].  A call that raises returns  *)
(* Raise(msg); a call that returns v returns Return(v).                    *)
(***************************************************************************)
EXTENDS Integers, Sequences, FiniteSets, TLC

VARIABLES calc, call, res, lists, controller

vars == <<calc, call, res, lists, controller>>

(***************************************************************************)
(* Bounds of the model.                                                    *)
(***************************************************************************)
\* Longest raw coefficient vector handed to the ModularPolynomial constructor.
MaxLen == 3
\* Largest coefficient modulus handed to the ModularPolynomial constructor.
MaxModulus == 5
\* Largest length of a raw vector in an equality comparison.
MaxEqLen == 2
\* Largest sum of the lengths of the two operand vectors of a binary operation.
MaxPairLen == 5
\* Largest sum of the lengths of the two vectors handed to handle_operation.
MaxOperandsLen == 4
\* Largest sum of the lengths of the three vectors of a distributivity test.
MaxTripleLen == 5
\* Largest entry of a vector handed to handle_operation (entries congruent to
\* 0 modulo p come in addition).
MaxCoefficient == 2
\* Largest characteristic handed to the FiniteFieldCalculator constructor.
MaxCharacteristic == 104
\* Largest extension degree n (and finder degree d) explored.
MaxDim == 4
\* Largest exponent N handed to compute_large_exponent_of_x directly.
MaxExp == 9
\* The characteristics explored: a prefix of PRIME_LIST.
ModelPrimes == {2, 3, 5}

\* A call made by the caller; after holds the call whose result it was given.
Call(name, args) == [name |-> name, args |-> args, after |-> <<>>]

Raise(msg) == [kind |-> "error", msg |-> msg]
Return(v) == [kind |-> "ok", val |-> v]
NoResult == [kind |-> "none"]
\* A call that is inside its loop: st holds its locals.
Running(st) == [kind |-> "running", st |-> st]

Max(a, b) == IF a >= b THEN a ELSE b
Min(a, b) == IF a <= b THEN a ELSE b

(***************************************************************************)
(* modular_polynomial.py                                                   *)
(***************************************************************************)

\* The pop loop of __init__: the caller's list after the constructor ran.
RECURSIVE StripTrailing(_, _)
StripTrailing(modulus, raw_coefficients) ==
    IF raw_coefficients # <<>> /\ raw_coefficients[Len(raw_coefficients)] % modulus = 0
    THEN StripTrailing(modulus, SubSeq(raw_coefficients, 1, Len(raw_coefficients) - 1))
    ELSE raw_coefficients

\* The constructor without the reduction of the kept coefficients.
ModularPolynomial_unreduced(modulus, raw_coefficients) ==
    LET popped == StripTrailing(modulus, raw_coefficients)
    IN  [modulus |-> modulus,
         coefficients |-> IF popped # <<>> THEN popped ELSE <<0>>]

\* __init__ past the modulus check: the object built from a raw vector.
ModularPolynomial(modulus, raw_coefficients) ==
    LET popped == StripTrailing(modulus, raw_coefficients)
    IN  [modulus |-> modulus,
         coefficients |-> IF popped # <<>>
                          THEN [i \in 1..Len(popped) |-> popped[i] % modulus]
                          ELSE <<0>>]

\* __init__ as a call: raises on a nonpositive modulus, before touching the list.
new_ModularPolynomial(modulus, raw_coefficients) ==
    IF modulus <= 0
    THEN Raise("Modulus must be positive")
    ELSE Return(ModularPolynomial(modulus, raw_coefficients))

\* The comparison without the moduli.
eq_coefficients_only(self, other) == self.coefficients = other.coefficients

eq(self, other) ==
    self.modulus = other.modulus /\ self.coefficients = other.coefficients

get_degree(self) == Len(self.coefficients) - 1

get_lead_coefficient(self) == self.coefficients[Len(self.coefficients)]

get_copy(self) == ModularPolynomial(self.modulus, self.coefficients)

\* The negative with the subtraction from the modulus left out.
get_negative_copy(self) == ModularPolynomial(self.modulus, self.coefficients)

get_negative(self) ==
    ModularPolynomial(self.modulus,
        [i \in 1..Len(self.coefficients) |-> self.modulus - self.coefficients[i]])

is_zero(self) == Len(self.coefficients) = 1 /\ self.coefficients[1] = 0

is_one(self) == Len(self.coefficients) = 1 /\ self.coefficients[1] = 1

is_constant(self) == Len(self.coefficients) = 1

\* Horner's method, from the highest coefficient down.
RECURSIVE evaluate_from(_, _, _, _)
evaluate_from(self, arg, i, result) ==
    IF i = 0 THEN result
    ELSE evaluate_from(self, arg, i - 1, (result * arg + self.coefficients[i]) % self.modulus)

evaluate(self, arg) == evaluate_from(self, arg, Len(self.coefficients), 0)

add_to(self, other, negative) ==
    IF self.modulus # other.modulus
    THEN Raise("Polynomials must have the same modulus [Addition]")
    ELSE LET max_len == Max(Len(self.coefficients), Len(other.coefficients))
             a(i) == IF i <= Len(self.coefficients) THEN self.coefficients[i] ELSE 0
             b(i) == IF negative
                     THEN IF i <= Len(other.coefficients)
                          THEN self.modulus - other.coefficients[i] ELSE 0
                     ELSE IF i <= Len(other.coefficients)
                          THEN other.coefficients[i] ELSE 0
             new_coefficients == [i \in 1..max_len |-> (a(i) + b(i)) % self.modulus]
         IN  Return(ModularPolynomial(self.modulus, new_coefficients))

add_one(self) == add_to(self, ModularPolynomial(self.modulus, <<1>>), FALSE)

\* other - self
subtract_from(self, other) == add_to(other, self, TRUE)

\* result[k] after the double loop: the terms a[i] * b[j] with i + j = k are
\* accumulated in increasing i, reduced after every addition.
RECURSIVE product_coefficient(_, _, _, _, _)
product_coefficient(self, other, k, i, acc) ==
    IF i > Min(Len(self.coefficients), k) THEN acc
    ELSE product_coefficient(self, other, k, i + 1,
            (acc + self.coefficients[i] * other.coefficients[k + 1 - i]) % self.modulus)

\* The product without the modulus check: computed modulo self.modulus.
product_with_unchecked(self, other) ==
    LET degree == Len(self.coefficients) + Len(other.coefficients) - 1
        result == [k \in 1..degree |->
                     product_coefficient(self, other, k,
                         Max(1, k + 1 - Len(other.coefficients)), 0)]
    IN  Return(ModularPolynomial(self.modulus, result))

product_with(self, other) ==
    IF self.modulus # other.modulus
    THEN Raise("Polynomials must have the same modulus [Multiplication]")
    ELSE LET degree == Len(self.coefficients) + Len(other.coefficients) - 1
             result == [k \in 1..degree |->
                          product_coefficient(self, other, k,
                              Max(1, k + 1 - Len(other.coefficients)), 0)]
         IN  Return(ModularPolynomial(self.modulus, result))

\* The loop condition with the degree test off by one.
divided_by_continue_strict(other, st) ==
    Len(st.remainder.coefficients) > Len(other.coefficients)
        /\ ~(Len(st.remainder.coefficients) = 1 /\ st.remainder.coefficients[1] = 0)

\* The iteration keeping only the last quotient term instead of the sum.
divided_by_step_last_term(self, other, st) ==
    LET qt_degree == get_degree(st.remainder) - get_degree(other)
        other_lead_inverse == (get_lead_coefficient(other) ^ (self.modulus - 2)) % self.modulus
        qt_coefficient == get_lead_coefficient(st.remainder) * other_lead_inverse
        quotient_term == ModularPolynomial(self.modulus,
                             [i \in 1..qt_degree |-> 0] \o <<qt_coefficient>>)
        intermediate_expression == product_with(other, quotient_term).val
    IN  [quotient |-> quotient_term,
         remainder |-> subtract_from(intermediate_expression, st.remainder).val]

\* One iteration of the long-division loop on the pair (quotient, remainder).
divided_by_step(self, other, st) ==
    LET qt_degree == get_degree(st.remainder) - get_degree(other)
        other_lead_inverse == (get_lead_coefficient(other) ^ (self.modulus - 2)) % self.modulus
        qt_coefficient == get_lead_coefficient(st.remainder) * other_lead_inverse
        quotient_term == ModularPolynomial(self.modulus,
                             [i \in 1..qt_degree |-> 0] \o <<qt_coefficient>>)
        intermediate_expression == product_with(other, quotient_term).val
    IN  [quotient |-> add_to(st.quotient, quotient_term, FALSE).val,
         remainder |-> subtract_from(intermediate_expression, st.remainder).val]

\* The condition of the long-division loop.
divided_by_continue(other, st) ==
    get_degree(st.remainder) >= get_degree(other) /\ ~is_zero(st.remainder)

RECURSIVE divided_by_loop(_, _, _)
divided_by_loop(self, other, st) ==
    IF divided_by_continue(other, st)
    THEN divided_by_loop(self, other, divided_by_step(self, other, st))
    ELSE st

\* The division without the zero-divisor check: a zero divisor yields the
\* quotient 0 and the dividend as remainder.
divided_by_unchecked(self, other) ==
    IF self.modulus # other.modulus
    THEN Raise("Polynomials must have the same modulus [Division]")
    ELSE IF other.coefficients = <<>> \/ \A i \in 1..Len(other.coefficients) : other.coefficients[i] = 0
    THEN Return([quotient |-> ModularPolynomial(self.modulus, <<0>>),
                 remainder |-> get_copy(self)])
    ELSE Return(divided_by_loop(self, other,
                    [quotient |-> ModularPolynomial(self.modulus, <<0>>),
                     remainder |-> get_copy(self)]))

\* Returns the DivisionResult [quotient, remainder].
divided_by(self, other) ==
    IF self.modulus # other.modulus
    THEN Raise("Polynomials must have the same modulus [Division]")
    ELSE IF other.coefficients = <<>> \/ \A i \in 1..Len(other.coefficients) : other.coefficients[i] = 0
    THEN Raise("Cannot divide by zero polynomial")
    ELSE Return(divided_by_loop(self, other,
                    [quotient |-> ModularPolynomial(self.modulus, <<0>>),
                     remainder |-> get_copy(self)]))

(***************************************************************************)
(* irreducible_finder.py                                                   *)
(***************************************************************************)

\* PRIME_FACTORS: the prime factors of each supported degree.
PRIME_FACTORS ==
    [deg \in 1..12 |->
        CASE deg = 1 -> <<1>>
          [] deg = 2 -> <<2>>
          [] deg = 3 -> <<3>>
          [] deg = 4 -> <<2>>
          [] deg = 5 -> <<5>>
          [] deg = 6 -> <<2, 3>>
          [] deg = 7 -> <<7>>
          [] deg = 8 -> <<2>>
          [] deg = 9 -> <<3>>
          [] deg = 10 -> <<2, 5>>
          [] deg = 11 -> <<11>>
          [] deg = 12 -> <<2, 3>>]

\* What a Python function returns when it falls off its end.
None == [modulus |-> 0, coefficients |-> <<>>]

\* The record walked from its oldest entry: only the first entry is tried.
first_fit_forward(expression_record, i, missing) ==
    IF expression_record[1].power <= missing THEN 1 ELSE 0

\* The index of the first entry of reversed(expression_record) whose power fits
\* into what is still missing, or 0 when no entry fits.
RECURSIVE first_fit_reversed(_, _, _)
first_fit_reversed(expression_record, i, missing) ==
    IF i = 0 THEN 0
    ELSE IF expression_record[i].power <= missing THEN i
    ELSE first_fit_reversed(expression_record, i - 1, missing)

\* One iteration of the while loop of compute_large_exponent_of_x on the state
\* (power, active_expression, expression_record); raised holds the exception
\* of the reduction, if it raised.
exponent_step(target_power, modulus_polynomial, st) ==
    LET d == get_degree(modulus_polynomial)
        squaring == ~(st.power * 2 > target_power)
        fit == first_fit_reversed(st.expression_record, Len(st.expression_record),
                                  target_power - st.power)
        multiplied ==
            IF squaring THEN product_with(st.active_expression, st.active_expression).val
            ELSE IF fit # 0
                 THEN product_with(st.active_expression, st.expression_record[fit].expr).val
                 ELSE st.active_expression
        power ==
            IF squaring THEN st.power * 2
            ELSE IF fit # 0 THEN st.power + st.expression_record[fit].power
            ELSE st.power
        too_large == get_degree(multiplied) >= d
        division == divided_by(multiplied, modulus_polynomial)
    IN  IF too_large /\ division.kind = "error"
        THEN [st EXCEPT !.raised = division]
        ELSE LET active_expression == IF too_large THEN division.val.remainder ELSE multiplied
             IN  [power |-> power,
                  active_expression |-> active_expression,
                  expression_record |->
                      IF squaring
                      THEN Append(st.expression_record,
                                  [expr |-> get_copy(active_expression), power |-> power])
                      ELSE st.expression_record,
                  raised |-> st.raised]

RECURSIVE exponent_loop(_, _, _)
exponent_loop(target_power, modulus_polynomial, st) ==
    IF st.power < target_power /\ st.raised.kind = "none"
    THEN exponent_loop(target_power, modulus_polynomial,
                       exponent_step(target_power, modulus_polynomial, st))
    ELSE st

\* The state before the first iteration: x^1 and the record holding it.
exponent_start(modulus_polynomial) ==
    LET active_expression == ModularPolynomial(modulus_polynomial.modulus, <<0, 1>>)
    IN  [power |-> 1,
         active_expression |-> active_expression,
         expression_record |-> <<[expr |-> get_copy(active_expression), power |-> 1]>>,
         raised |-> NoResult]

compute_large_exponent_of_x(target_power, modulus_polynomial) ==
    LET final == exponent_loop(target_power, modulus_polynomial,
                               exponent_start(modulus_polynomial))
    IN  IF final.raised.kind = "error" THEN final.raised
        ELSE Return(final.active_expression)

\* The monic polynomials of the given degree: list(coeffs) + [1] for every
\* tuple coeffs of product(range(modulus), repeat=degree).
monic_polynomials(modulus, degree) ==
    {ModularPolynomial(modulus, coeffs \o <<1>>) : coeffs \in [1..degree -> 0..(modulus - 1)]}

check_non_prime_power_degree(poly) ==
    ~ \E degree \in {1, 2} :
        \E potential_divisor \in monic_polynomials(poly.modulus, degree) :
            is_zero(divided_by(poly, potential_divisor).val.remainder)

\* The low-degree test with the root search of degrees 2 and 3 left out.
check_if_low_degree_irreducible_rootless(poly, deg) ==
    IF deg = 0 THEN poly.coefficients[1] # 0 ELSE TRUE

\* Falls off the end (None, which is falsy) for a degree above 3.
check_if_low_degree_irreducible(poly, deg) ==
    IF deg = 0 THEN poly.coefficients[1] # 0
    ELSE IF deg = 1 THEN TRUE
    ELSE IF deg \in {2, 3} THEN \A x \in 0..(poly.modulus - 1) : evaluate(poly, x) # 0
    ELSE FALSE

check_if_high_degree_irreducible(poly, deg) ==
    LET standard_poly == ModularPolynomial(poly.modulus, <<0, 1>>)
        first_check == compute_large_exponent_of_x(poly.modulus ^ deg, poly).val
    IN  IF ~eq(first_check, standard_poly) THEN FALSE
        ELSE \A i \in 1..Len(PRIME_FACTORS[deg]) :
                LET r == PRIME_FACTORS[deg][i]
                    active_check ==
                        compute_large_exponent_of_x(poly.modulus ^ (deg \div r), poly).val
                IN  ~eq(active_check, standard_poly)

\* The test without the trial division of degrees 6, 10 and 12.
check_if_irreducible_rabin_only(poly) ==
    LET deg == get_degree(poly)
    IN  IF deg <= 3 THEN check_if_low_degree_irreducible(poly, deg)
                    ELSE check_if_high_degree_irreducible(poly, deg)

check_if_irreducible(poly) ==
    LET deg == get_degree(poly)
    IN  /\ IF deg <= 3 THEN check_if_low_degree_irreducible(poly, deg)
                       ELSE check_if_high_degree_irreducible(poly, deg)
        /\ (deg \in {6, 10, 12} => check_non_prime_power_degree(poly))

\* The while loop of check_if_primitive: the order counted until the value is 1.
RECURSIVE order_loop(_, _, _, _)
order_loop(num, prime_modulus, current_value, order) ==
    IF current_value # 1
    THEN order_loop(num, prime_modulus, (current_value * num) % prime_modulus, order + 1)
    ELSE order

check_if_primitive_counting_from_zero(num, prime_modulus) ==
    order_loop(num, prime_modulus, num, 0) = prime_modulus - 1

check_if_primitive(num, prime_modulus) ==
    order_loop(num, prime_modulus, num, 1) = prime_modulus - 1

\* [x for x in range(x, characteristic) if check_if_primitive(x, characteristic)]
RECURSIVE primitive_elements_from(_, _)
primitive_elements_from(x, characteristic) ==
    IF x >= characteristic THEN <<>>
    ELSE (IF check_if_primitive(x, characteristic) THEN <<x>> ELSE <<>>)
             \o primitive_elements_from(x + 1, characteristic)

primitive_elements(characteristic) == primitive_elements_from(1, characteristic)

\* The candidate built in the innermost loop body: constant + y*x^z + x^degree.
trinomial(characteristic, degree, constant, y, z) ==
    LET lower_term_zeros == [i \in 1..(z - 1) |-> 0]
        higher_term_zeros == [i \in 1..(degree - z - 1) |-> 0]
        coefficient_set == <<constant>> \o lower_term_zeros \o <<y>>
                               \o higher_term_zeros \o <<1>>
    IN  ModularPolynomial(characteristic, coefficient_set)

\* The three nested loops from the position (c, y, z) on: c indexes the
\* constants, y the middle coefficient, z the middle position.
RECURSIVE trinomial_search(_, _, _, _, _, _)
trinomial_search(characteristic, degree, constants, c, y, z) ==
    IF c > Len(constants) THEN None
    ELSE IF y > characteristic - 1
         THEN trinomial_search(characteristic, degree, constants, c + 1, 1, 1)
    ELSE IF z > degree - 1
         THEN trinomial_search(characteristic, degree, constants, c, y + 1, 1)
    ELSE LET polynomial == trinomial(characteristic, degree, constants[c], y, z)
         IN  IF check_if_irreducible(polynomial) THEN polynomial
             ELSE trinomial_search(characteristic, degree, constants, c, y, z + 1)

\* The search with the constant 1 tried before the primitive elements.
find_irreducible_trinomial_one_first(characteristic, degree) ==
    trinomial_search(characteristic, degree,
                     <<1>> \o primitive_elements(characteristic), 1, 1, 1)

find_irreducible_trinomial(characteristic, degree) ==
    trinomial_search(characteristic, degree,
                     primitive_elements(characteristic) \o <<1>>, 1, 1, 1)

\* find_irreducible without the hardcoded polynomial for characteristic 2, degree 8.
find_irreducible_searching(characteristic, degree) ==
    IF degree = 1 THEN ModularPolynomial(characteristic, <<0, 1>>)
    ELSE find_irreducible_trinomial(characteristic, degree)

\* find_irreducible without its two shortcuts: every pair goes to the search.
find_irreducible_search_only(characteristic, degree) ==
    find_irreducible_trinomial(characteristic, degree)

find_irreducible(characteristic, degree) ==
    IF degree = 1 THEN ModularPolynomial(characteristic, <<0, 1>>)
    ELSE IF characteristic = 2 /\ degree = 8
         THEN ModularPolynomial(2, <<1, 1, 0, 0, 0, 0, 1, 1, 1>>)
    ELSE find_irreducible_trinomial(characteristic, degree)

(***************************************************************************)
(* calculator_engine.py                                                    *)
(***************************************************************************)

PRIME_LIST ==
    <<2, 3, 5, 7, 11, 13, 17, 19, 23, 29, 31, 37, 41, 43, 47, 53, 59, 61, 67, 71, 73,
      79, 83, 89, 97, 101>>

\* The members of the FieldOperation enumeration.
ADD == "add"
SUBTRACT == "subtract"
MULTIPLY == "multiply"
DIVIDE == "divide"
FieldOperation == {ADD, SUBTRACT, MULTIPLY, DIVIDE}

\* Python's base ** exponent for an exponent >= 0 (0 ** 0 is 1).
RECURSIVE Pow(_, _)
Pow(base, exponent) == IF exponent = 0 THEN 1 ELSE base * Pow(base, exponent - 1)

\* The constructor with the search started before the table is consulted: a
\* nonpositive p then fails inside the ModularPolynomial constructor.
new_FiniteFieldCalculator_search_first(prime_modulus, dim) ==
    IF prime_modulus <= 0
    THEN Raise("Modulus must be positive")
    ELSE IF ~ \E i \in 1..Len(PRIME_LIST) : PRIME_LIST[i] = prime_modulus
    THEN Raise("Invalid modulus")
    ELSE Return([prime_modulus |-> prime_modulus,
                 polynomial_modulus |-> find_irreducible(prime_modulus, dim)])

\* FiniteFieldCalculator(prime_modulus, dim): the object, or the exception.
new_FiniteFieldCalculator(prime_modulus, dim) ==
    IF ~ \E i \in 1..Len(PRIME_LIST) : PRIME_LIST[i] = prime_modulus
    THEN Raise("Invalid modulus")
    ELSE Return([prime_modulus |-> prime_modulus,
                 polynomial_modulus |-> find_irreducible(prime_modulus, dim)])

\* The reduction left out: the polynomial is handed back as it is.
reduce_by_modulus_skipped(self, poly) == poly

reduce_by_modulus(self, poly) == divided_by(poly, self.polynomial_modulus).val.remainder

\* The exponent one too large: c^(p-1), which is 1 for every nonzero c.
find_constant_inverse_unit(self, polynomial) ==
    LET constant_inverse == Pow(polynomial.coefficients[1], self.prime_modulus - 1)
    IN  ModularPolynomial(self.prime_modulus, <<constant_inverse>>)

find_constant_inverse(self, polynomial) ==
    LET constant_inverse == Pow(polynomial.coefficients[1], self.prime_modulus - 2)
    IN  ModularPolynomial(self.prime_modulus, <<constant_inverse>>)

\* The body of the while True loop of _compute_euclidean_sequence past the
\* division: both lists are appended to, and dividend and divisor move on.
euclidean_append(st, division_result) ==
    [dividend |-> st.divisor,
     divisor |-> division_result.remainder,
     quotients |-> Append(st.quotients, division_result.quotient),
     remainders |-> Append(st.remainders, division_result.remainder)]

\* One iteration of the while True loop of _compute_euclidean_sequence.
euclidean_step(st) == euclidean_append(st, divided_by(st.dividend, st.divisor).val)

\* The loop runs until the remainder just appended is constant.
RECURSIVE euclidean_loop(_)
RECURSIVE euclidean_break(_)
\* The loop left only at a zero remainder.
euclidean_break_at_zero(next) ==
    IF is_zero(next.remainders[Len(next.remainders)]) THEN next
    ELSE euclidean_loop(next)

euclidean_break(next) ==
    IF is_constant(next.remainders[Len(next.remainders)]) THEN next
    ELSE euclidean_loop(next)

euclidean_loop(st) == euclidean_break(euclidean_step(st))

compute_euclidean_sequence(self, polynomial) ==
    euclidean_loop([dividend |-> self.polynomial_modulus,
                    divisor |-> polynomial,
                    quotients |-> <<>>,
                    remainders |-> <<>>])

\* The loop with the subtraction the other way round: q_i * s_(i-1) - s_(i-2).
RECURSIVE expression_loop_swapped(_, _, _, _)
expression_loop_swapped(quotient_list, remainder_count, x, intermediate_expressions) ==
    IF x >= remainder_count THEN intermediate_expressions
    ELSE LET product == product_with(quotient_list[x + 1], intermediate_expressions[x]).val
             new_expression == subtract_from(intermediate_expressions[x - 1], product).val
         IN  expression_loop_swapped(quotient_list, remainder_count, x + 1,
                                     Append(intermediate_expressions, new_expression))

\* The for loop of _compute_expression_from_sequence from index x on (x is the
\* Python index: quotient_list[x] is the sequence element x + 1).
RECURSIVE expression_loop(_, _, _, _)
expression_loop(quotient_list, remainder_count, x, intermediate_expressions) ==
    IF x >= remainder_count THEN intermediate_expressions
    ELSE LET product == product_with(quotient_list[x + 1], intermediate_expressions[x]).val
             new_expression == subtract_from(product, intermediate_expressions[x - 1]).val
         IN  expression_loop(quotient_list, remainder_count, x + 1,
                             Append(intermediate_expressions, new_expression))

\* The first expression taken as q_1 instead of -q_1.
compute_expression_from_sequence_unsigned(quotient_list, remainder_count) ==
    LET first == <<quotient_list[1]>>
        second == IF Len(quotient_list) > 1
                  THEN Append(first,
                              add_one(product_with(quotient_list[1], quotient_list[2]).val).val)
                  ELSE first
        intermediate_expressions == expression_loop(quotient_list, remainder_count, 2, second)
    IN  intermediate_expressions[Len(intermediate_expressions)]

\* The list with the second expression taken as q_1 * q_2, the one not added.
intermediate_expressions_without_one(quotient_list, remainder_count) ==
    LET first == <<get_negative(quotient_list[1])>>
        second == IF Len(quotient_list) > 1
                  THEN Append(first, product_with(quotient_list[1], quotient_list[2]).val)
                  ELSE first
    IN  expression_loop(quotient_list, remainder_count, 2, second)

\* The list intermediate_expressions when _compute_expression_from_sequence
\* returns.
intermediate_expressions(quotient_list, remainder_count) ==
    LET first == <<get_negative(quotient_list[1])>>
        second == IF Len(quotient_list) > 1
                  THEN Append(first,
                              add_one(product_with(quotient_list[1], quotient_list[2]).val).val)
                  ELSE first
    IN  expression_loop(quotient_list, remainder_count, 2, second)

\* intermediate_expressions[-1]
last_expression(expressions) == expressions[Len(expressions)]

compute_expression_from_sequence(quotient_list, remainder_count) ==
    last_expression(intermediate_expressions(quotient_list, remainder_count))

\* find_multiplicative_inverse once the Euclidean sequence is computed.
inverse_from_sequence(self, quotients, remainders) ==
    LET final_constant_inverse == find_constant_inverse(self, remainders[Len(remainders)])
        initial_expression == compute_expression_from_sequence(quotients, Len(remainders))
        reduced_expression == reduce_by_modulus(self, initial_expression)
    IN  product_with(reduced_expression, final_constant_inverse)

\* The two lists returned by _compute_euclidean_sequence, unpacked.
inverse_from(self, sequence) ==
    inverse_from_sequence(self, sequence.quotients, sequence.remainders)

\* The inverse without the zero check: zero goes down the constant path.
find_multiplicative_inverse_unchecked(self, polynomial) ==
    IF is_constant(polynomial)
    THEN Return(find_constant_inverse(self, polynomial))
    ELSE inverse_from(self, compute_euclidean_sequence(self, polynomial))

find_multiplicative_inverse(self, polynomial) ==
    IF is_zero(polynomial)
    THEN Raise("Zero polynomial does not have an inverse")
    ELSE IF is_constant(polynomial)
    THEN Return(find_constant_inverse(self, polynomial))
    ELSE inverse_from(self, compute_euclidean_sequence(self, polynomial))

\* The ADD branch returning one more than the sum.
handle_operation_ADD_one_more(polynomial0, polynomial1) ==
    add_one(add_to(polynomial0, polynomial1, FALSE).val)

\* The ADD branch of handle_operation.
handle_operation_ADD(polynomial0, polynomial1) == add_to(polynomial0, polynomial1, FALSE)

\* The SUBTRACT branch with the operands the other way round.
handle_operation_SUBTRACT_swapped(polynomial0, polynomial1) ==
    subtract_from(polynomial0, polynomial1)

\* The SUBTRACT branch of handle_operation.
handle_operation_SUBTRACT(polynomial0, polynomial1) ==
    subtract_from(polynomial1, polynomial0)

\* return self._reduce_by_modulus(product): an exception raised while the
\* product was computed is passed on.
handle_operation_reduce(self, product) ==
    IF product.kind = "error" THEN product
    ELSE Return(reduce_by_modulus(self, product.val))

\* The MULTIPLY branch of handle_operation.
handle_operation_MULTIPLY(self, polynomial0, polynomial1) ==
    handle_operation_reduce(self, product_with(polynomial0, polynomial1))

\* The DIVIDE branch past the computation of the inverse.
handle_operation_DIVIDE_by(self, polynomial0, polynomial1_inverse) ==
    IF polynomial1_inverse.kind = "error" THEN polynomial1_inverse
    ELSE handle_operation_reduce(self, product_with(polynomial0, polynomial1_inverse.val))

\* The DIVIDE branch of handle_operation.
handle_operation_DIVIDE(self, polynomial0, polynomial1) ==
    IF is_zero(polynomial1)
    THEN Raise("Cannot divide by zero polynomial")
    ELSE handle_operation_DIVIDE_by(self, polynomial0,
                                    find_multiplicative_inverse(self, polynomial1))

handle_operation(self, coefficient_set_0, coefficient_set_1, op) ==
    LET polynomial0 == ModularPolynomial(self.prime_modulus, coefficient_set_0)
        polynomial1 == ModularPolynomial(self.prime_modulus, coefficient_set_1)
    IN  IF op = ADD THEN handle_operation_ADD(polynomial0, polynomial1)
        ELSE IF op = SUBTRACT THEN handle_operation_SUBTRACT(polynomial0, polynomial1)
        ELSE IF op = MULTIPLY THEN handle_operation_MULTIPLY(self, polynomial0, polynomial1)
        ELSE IF op = DIVIDE THEN handle_operation_DIVIDE(self, polynomial0, polynomial1)
        ELSE Raise("Unknown operation")

\* The calculator object after each method. Outside __init__ no method assigns
\* to an attribute of self: the Euclidean loop works on the locals dividend and
\* divisor, and every polynomial method called on self.polynomial_modulus
\* builds new lists (divided_by starts from get_copy, which copies the list).

\* The loop's dividend kept in the attribute instead of a local.
self_after_compute_euclidean_sequence_rebound(self, polynomial) ==
    [self EXCEPT !.polynomial_modulus = compute_euclidean_sequence(self, polynomial).dividend]

self_after_compute_euclidean_sequence(self, polynomial) == self

self_after_reduce_by_modulus(self, poly) == self

self_after_find_constant_inverse(self, polynomial) == self

self_after_find_multiplicative_inverse(self, polynomial) ==
    IF is_zero(polynomial) THEN self
    ELSE IF is_constant(polynomial) THEN self_after_find_constant_inverse(self, polynomial)
    ELSE self_after_compute_euclidean_sequence(self, polynomial)

self_after_handle_operation(self, coefficient_set_0, coefficient_set_1, op) ==
    IF op = DIVIDE /\ ~is_zero(ModularPolynomial(self.prime_modulus, coefficient_set_1))
    THEN self_after_find_multiplicative_inverse(
             self, ModularPolynomial(self.prime_modulus, coefficient_set_1))
    ELSE IF op = MULTIPLY
    THEN self_after_reduce_by_modulus(self, ModularPolynomial(self.prime_modulus, coefficient_set_0))
    ELSE self

(***************************************************************************)
(* Callers of the polynomial ring: each behaviour makes one call.          *)
(***************************************************************************)

\* All vectors of the given length over a set of values.
Vectors(values, len) == [1..len -> values]

\* Raw integers a caller may put in a vector: negative, in range and oversized.
RawValues(modulus) == (0 - Max(modulus, 1))..(2 * Max(modulus, 1))

RawVectors(modulus) == UNION {Vectors(RawValues(modulus), len) : len \in 0..MaxLen}

\* The polynomials of degree < len over Z/mZ, as objects.
Polynomials(modulus, len) ==
    {ModularPolynomial(modulus, raw) : raw \in Vectors(0..(modulus - 1), len)}

\* Operand pairs of a binary operation, over equal or different moduli.
OperandPairs ==
    UNION {Polynomials(m0, len0) \X Polynomials(m1, len1) :
             <<m0, m1, len0, len1>> \in
                {t \in ModelPrimes \X ModelPrimes \X (1..MaxPairLen) \X (1..MaxPairLen) :
                    t[3] + t[4] <= MaxPairLen}}

Init ==
    /\ calc = <<>>
    /\ call = Call("init", <<>>)
    /\ res = NoResult
    /\ lists = <<>>
    /\ controller = [calculator |-> <<>>, modulus_polynomial |-> <<>>, threads |-> <<>>]

Idle == call.name = "init"

\* ModularPolynomial(modulus, raw_coefficients), called with a caller's list.
Construct ==
    /\ Idle
    /\ \E modulus \in (0 - 1)..MaxModulus :
         \E raw \in RawVectors(modulus) :
            /\ call' = Call("ModularPolynomial", <<modulus, raw>>)
            /\ res' = new_ModularPolynomial(modulus, raw)
            /\ lists' = IF modulus <= 0 THEN <<raw>> ELSE <<StripTrailing(modulus, raw)>>
    /\ UNCHANGED <<calc, controller>>

\* A call of a method without arguments on a polynomial.
UnaryCall(name, self, result) ==
    /\ call' = Call(name, <<self>>)
    /\ res' = result
    /\ UNCHANGED <<calc, lists, controller>>

\* A call self.name(other).
BinaryCall(name, self, other, result) ==
    /\ call' = Call(name, <<self, other>>)
    /\ res' = result
    /\ UNCHANGED <<calc, lists, controller>>

SomePolynomial == UNION {Polynomials(m, MaxLen) : m \in 1..MaxModulus}

GetCopy == Idle /\ \E self \in SomePolynomial : UnaryCall("get_copy", self, Return(get_copy(self)))

GetNegative ==
    Idle /\ \E self \in SomePolynomial : UnaryCall("get_negative", self, Return(get_negative(self)))

AddTo ==
    Idle /\ \E pair \in OperandPairs :
        BinaryCall("add_to", pair[1], pair[2], add_to(pair[1], pair[2], FALSE))

SubtractFrom ==
    Idle /\ \E pair \in OperandPairs :
        BinaryCall("subtract_from", pair[1], pair[2], subtract_from(pair[1], pair[2]))

ProductWith ==
    Idle /\ \E pair \in OperandPairs :
        BinaryCall("product_with", pair[1], pair[2], product_with(pair[1], pair[2]))

DividedBy ==
    Idle /\ \E pair \in OperandPairs :
        BinaryCall("divided_by", pair[1], pair[2], divided_by(pair[1], pair[2]))

\* The moduli and raw vectors of the polynomials compared: entries from -1
\* to m, so that residues have several representatives.
EqualityModuli == {2, 3, 4}
EqualityVectors(modulus) == UNION {Vectors((0 - 1)..modulus, len) : len \in 0..MaxEqLen}

\* ModularPolynomial(m0, raw0) == ModularPolynomial(m1, raw1).
Equals ==
    /\ Idle
    /\ \E m0 \in EqualityModuli, m1 \in EqualityModuli :
         \E raw0 \in EqualityVectors(m0), raw1 \in EqualityVectors(m1) :
            /\ call' = Call("__eq__", <<m0, raw0, m1, raw1>>)
            /\ res' = Return(eq(ModularPolynomial(m0, raw0), ModularPolynomial(m1, raw1)))
            /\ lists' = <<StripTrailing(m0, raw0), StripTrailing(m1, raw1)>>
    /\ UNCHANGED <<calc, controller>>

NextPoly ==
    \/ Equals
    \/ Construct
    \/ GetCopy
    \/ GetNegative
    \/ AddTo
    \/ SubtractFrom
    \/ ProductWith
    \/ DividedBy

SpecPoly == Init /\ [][NextPoly]_vars

(***************************************************************************)
(* Callers of the irreducible finder: each behaviour makes one call.       *)
(***************************************************************************)

\* The (characteristic, degree) pairs asked for, the hardcoded pair among them,
\* and degree 1 for every modulus from 2 to MaxCharacteristic.
FinderInputs ==
    (ModelPrimes \X (1..MaxDim)) \cup {<<2, 8>>} \cup ((2..MaxCharacteristic) \X {1})

FindIrreducible ==
    /\ Idle
    /\ \E input \in FinderInputs :
         /\ call' = Call("find_irreducible", input)
         /\ res' = Return(find_irreducible(input[1], input[2]))
    /\ UNCHANGED <<calc, lists, controller>>

\* The (characteristic, degree) pairs the search is run on: degree 1 and the
\* pair (2, 8), for which it finds nothing, among them, and the pair (11, 2),
\* for which no candidate with y = 1 passes.
TrinomialInputs == (ModelPrimes \X (1..MaxDim)) \cup {<<2, 8>>, <<11, 2>>}

FindIrreducibleTrinomial ==
    /\ Idle
    /\ \E input \in TrinomialInputs :
         /\ call' = Call("find_irreducible_trinomial", input)
         /\ res' = Return(find_irreducible_trinomial(input[1], input[2]))
    /\ UNCHANGED <<calc, lists, controller>>

ComputeLargeExponent ==
    /\ Idle
    /\ \E target_power \in 1..MaxExp :
         \E modulus_polynomial \in UNION {Polynomials(m, MaxLen) : m \in ModelPrimes} :
            /\ call' = Call("compute_large_exponent_of_x", <<target_power, modulus_polynomial>>)
            /\ res' = compute_large_exponent_of_x(target_power, modulus_polynomial)
    /\ UNCHANGED <<calc, lists, controller>>

\* divided_by taken one iteration of its while loop at a time. While the call
\* runs, res holds the locals (quotient, remainder); call.after holds one
\* entry for every iteration made.
DivisionLoopCall == "divided_by (while loop)"

\* The two checks and the two assignments before the loop.
divided_by_enter(self, other) ==
    IF self.modulus # other.modulus
    THEN Raise("Polynomials must have the same modulus [Division]")
    ELSE IF other.coefficients = <<>> \/ \A i \in 1..Len(other.coefficients) : other.coefficients[i] = 0
    THEN Raise("Cannot divide by zero polynomial")
    ELSE Running([quotient |-> ModularPolynomial(self.modulus, <<0>>),
                  remainder |-> get_copy(self)])

DivisionEnter ==
    /\ Idle
    /\ \E pair \in OperandPairs :
         /\ call' = Call(DivisionLoopCall, <<pair[1], pair[2]>>)
         /\ res' = divided_by_enter(pair[1], pair[2])
    /\ UNCHANGED <<calc, lists, controller>>

\* One pass through the body of the while loop.
DivisionIterate ==
    /\ call.name = DivisionLoopCall
    /\ res.kind = "running"
    /\ divided_by_continue(call.args[2], res.st)
    /\ call' = [call EXCEPT !.after = Append(call.after, get_degree(res.st.remainder))]
    /\ res' = Running(divided_by_step(call.args[1], call.args[2], res.st))
    /\ UNCHANGED <<calc, lists, controller>>

\* The loop is left: return DivisionResult(quotient, remainder).
DivisionReturn ==
    /\ call.name = DivisionLoopCall
    /\ res.kind = "running"
    /\ ~divided_by_continue(call.args[2], res.st)
    /\ res' = Return(res.st)
    /\ UNCHANGED <<calc, call, lists, controller>>

NextDivisionLoop ==
    \/ DivisionEnter
    \/ DivisionIterate
    \/ DivisionReturn

SpecDivisionLoop == Init /\ [][NextDivisionLoop]_vars

\* compute_large_exponent_of_x taken one iteration of its while loop at a
\* time. While the call runs, res holds the locals (power, active_expression,
\* expression_record); call.after lists, for every iteration made, which branch
\* it took and the power it reached.
LoopCall == "compute_large_exponent_of_x (while loop)"

\* The lines before the loop.
ExponentEnter ==
    /\ Idle
    /\ \E target_power \in 1..MaxExp :
         \E modulus_polynomial \in UNION {Polynomials(m, MaxLen) : m \in ModelPrimes} :
            /\ call' = [name |-> LoopCall,
                        args |-> <<target_power, modulus_polynomial>>,
                        after |-> <<>>]
            /\ res' = Running(exponent_start(modulus_polynomial))
    /\ UNCHANGED <<calc, lists, controller>>

\* The record of an iteration: the branch taken and the power reached.
iteration_made(target_power, st, next) ==
    [branch |-> IF next.raised.kind = "error" THEN "raise"
                ELSE IF st.power * 2 > target_power THEN "compose"
                ELSE "square",
     power |-> next.power]

iterate(target_power, st, next) ==
    /\ call' = [call EXCEPT !.after = Append(call.after, iteration_made(target_power, st, next))]
    /\ res' = Running(next)

\* One pass through the body of the while loop.
ExponentIterate ==
    /\ call.name = LoopCall
    /\ res.kind = "running"
    /\ res.st.power < call.args[1]
    /\ res.st.raised.kind = "none"
    /\ iterate(call.args[1], res.st, exponent_step(call.args[1], call.args[2], res.st))
    /\ UNCHANGED <<calc, lists, controller>>

\* The loop is left: return active_expression, or the exception goes up.
ExponentReturn ==
    /\ call.name = LoopCall
    /\ res.kind = "running"
    /\ ~(res.st.power < call.args[1] /\ res.st.raised.kind = "none")
    /\ res' = IF res.st.raised.kind = "error" THEN res.st.raised
              ELSE Return(res.st.active_expression)
    /\ UNCHANGED <<calc, call, lists, controller>>

NextExponent ==
    \/ ExponentEnter
    \/ ExponentIterate
    \/ ExponentReturn

SpecExponent == Init /\ [][NextExponent]_vars

\* The polynomials tested: of degree up to MaxDim + 2 over Z/2Z, up to MaxDim
\* over Z/3Z and up to MaxDim - 1 over Z/5Z, and the hardcoded one of degree 8.
CheckInputs ==
    Polynomials(2, MaxDim + 3) \cup Polynomials(3, MaxDim + 1) \cup Polynomials(5, MaxDim)
        \cup {ModularPolynomial(2, <<1, 1, 0, 0, 0, 0, 1, 1, 1>>)}

CheckIfIrreducible ==
    /\ Idle
    /\ \E poly \in CheckInputs :
         /\ call' = Call("check_if_irreducible", <<poly>>)
         /\ res' = Return(check_if_irreducible(poly))
    /\ UNCHANGED <<calc, lists, controller>>

\* The prime moduli check_if_primitive is called with.
PrimitiveModuli == ModelPrimes \cup {7}

CheckIfPrimitive ==
    /\ Idle
    /\ \E prime_modulus \in PrimitiveModuli :
         \E num \in 1..(prime_modulus - 1) :
            /\ call' = Call("check_if_primitive", <<num, prime_modulus>>)
            /\ res' = Return(check_if_primitive(num, prime_modulus))
    /\ UNCHANGED <<calc, lists, controller>>

NextFinder ==
    \/ FindIrreducible
    \/ FindIrreducibleTrinomial
    \/ ComputeLargeExponent
    \/ CheckIfIrreducible
    \/ CheckIfPrimitive

SpecFinder == Init /\ [][NextFinder]_vars

(***************************************************************************)
(* Callers of the calculator: a calculator is constructed, then one call   *)
(* is made on it, and the result of a multiplication or division may be    *)
(* handed to the inverse operation with the same second vector.            *)
(***************************************************************************)

\* The (p, n) handed to the constructor: every p from -1 to MaxCharacteristic
\* with n = 1, and the explored primes and some unsupported p with every n.
CalculatorInputs ==
    (((0 - 1)..MaxCharacteristic) \X {1}) \cup ((ModelPrimes \cup {0, 1, 4}) \X (1..MaxDim))

\* Vectors whose every entry is congruent to 0 modulo p.
ZeroLikeVectors(p) == UNION {Vectors({0, p, 0 - p}, len) : len \in 0..2}

\* The pairs of coefficient vectors handed to handle_operation.
FieldOperandPairs(p) ==
    LET entries == 0..Min(p - 1, MaxCoefficient)
    IN  UNION {Vectors(entries, lens[1]) \X Vectors(entries, lens[2]) :
                 lens \in {t \in (0..MaxOperandsLen) \X (0..MaxOperandsLen) :
                             t[1] + t[2] <= MaxOperandsLen}}
          \cup ((UNION {Vectors(entries, len) : len \in 0..2}) \X ZeroLikeVectors(p))

\* The controller keeps the calculator when the constructor returned one.
Constructed(input, made) ==
    /\ call' = Call("FiniteFieldCalculator", input)
    /\ res' = made
    /\ calc' = IF made.kind = "ok" THEN <<made.val>> ELSE calc

ConstructCalculator ==
    /\ Idle
    /\ \E input \in CalculatorInputs :
         Constructed(input, new_FiniteFieldCalculator(input[1], input[2]))
    /\ UNCHANGED <<lists, controller>>

\* A calculator has just been constructed; calls are made on the calculators
\* over the explored primes.
Ready ==
    /\ calc # <<>>
    /\ call.name = "FiniteFieldCalculator"
    /\ calc[1].prime_modulus \in ModelPrimes

\* handle_operation lifts both vectors with the ModularPolynomial constructor,
\* which pops the trailing zero-equivalent entries off the caller's lists.
HandleOperation ==
    /\ Ready
    /\ \E pair \in FieldOperandPairs(calc[1].prime_modulus) :
         \E op \in FieldOperation :
            /\ call' = Call("handle_operation", <<pair[1], pair[2], op>>)
            /\ res' = handle_operation(calc[1], pair[1], pair[2], op)
            /\ lists' = <<StripTrailing(calc[1].prime_modulus, pair[1]),
                          StripTrailing(calc[1].prime_modulus, pair[2])>>
            /\ calc' = <<self_after_handle_operation(calc[1], pair[1], pair[2], op)>>
    /\ UNCHANGED controller

InverseOperation(op) == IF op = MULTIPLY THEN DIVIDE ELSE MULTIPLY

\* handle_operation(result.coefficients, b, inverse op): the previous result's
\* own coefficient list and the caller's second list are handed in.
HandleInverseOperation ==
    /\ calc # <<>>
    /\ call.name = "handle_operation"
    /\ call.after = <<>>
    /\ call.args[3] \in {MULTIPLY, DIVIDE}
    /\ res.kind = "ok"
    /\ LET op == InverseOperation(call.args[3])
       IN  /\ call' = [name |-> "handle_operation",
                       args |-> <<res.val.coefficients, lists[2], op>>,
                       after |-> <<call>>]
           /\ res' = handle_operation(calc[1], res.val.coefficients, lists[2], op)
           /\ lists' = <<lists[1], StripTrailing(calc[1].prime_modulus, lists[2])>>
           /\ calc' = <<self_after_handle_operation(calc[1], res.val.coefficients, lists[2], op)>>
    /\ UNCHANGED controller

\* The arguments of find_multiplicative_inverse: every polynomial over Z/pZ
\* of degree up to n (the modulus and its multiples among them), and of degree
\* up to 2 in the smaller fields.
InverseArguments(self) ==
    Polynomials(self.prime_modulus, get_degree(self.polynomial_modulus) + 1)
        \cup Polynomials(self.prime_modulus, 3)

\* The caller goes on with the calculator after a call that raised.
ReadyAfterError ==
    /\ calc # <<>>
    /\ calc[1].prime_modulus \in ModelPrimes
    /\ call.name = "find_multiplicative_inverse"
    /\ call.after = <<>>
    /\ res.kind = "error"

FindMultiplicativeInverse ==
    /\ Ready
    /\ \E polynomial \in InverseArguments(calc[1]) :
         /\ call' = Call("find_multiplicative_inverse", <<polynomial>>)
         /\ res' = find_multiplicative_inverse(calc[1], polynomial)
         /\ calc' = <<self_after_find_multiplicative_inverse(calc[1], polynomial)>>
    /\ UNCHANGED <<lists, controller>>

\* find_multiplicative_inverse called again, with a polynomial of degree up to
\* 2, on the calculator whose previous call raised.
FindMultiplicativeInverseAfterError ==
    /\ ReadyAfterError
    /\ \E polynomial \in Polynomials(calc[1].prime_modulus, 3) :
         /\ call' = [name |-> "find_multiplicative_inverse",
                     args |-> <<polynomial>>,
                     after |-> <<call>>]
         /\ res' = find_multiplicative_inverse(calc[1], polynomial)
         /\ calc' = <<self_after_find_multiplicative_inverse(calc[1], polynomial)>>
    /\ UNCHANGED <<lists, controller>>

\* _compute_euclidean_sequence(polynomial), as find_multiplicative_inverse
\* calls it: on a non-constant polynomial over Z/pZ, here of degree below n
\* (up to 2 in the smaller fields).
EuclideanArguments(self) ==
    {polynomial \in Polynomials(self.prime_modulus, get_degree(self.polynomial_modulus))
                        \cup Polynomials(self.prime_modulus, 3) :
        ~is_constant(polynomial)}

\* return quotients, remainders
euclidean_return(sequence) ==
    Return([quotients |-> sequence.quotients, remainders |-> sequence.remainders])

ComputeEuclideanSequence ==
    /\ Ready
    /\ \E polynomial \in EuclideanArguments(calc[1]) :
         /\ call' = Call("_compute_euclidean_sequence", <<polynomial>>)
         /\ res' = euclidean_return(compute_euclidean_sequence(calc[1], polynomial))
         /\ calc' = <<self_after_compute_euclidean_sequence(calc[1], polynomial)>>
    /\ UNCHANGED <<lists, controller>>

\* _compute_expression_from_sequence(quotients, len(remainders)), the next
\* step of find_multiplicative_inverse on the two lists just returned.
ComputeExpressionFromSequence ==
    /\ calc # <<>>
    /\ call.name = "_compute_euclidean_sequence"
    /\ call' = [name |-> "_compute_expression_from_sequence",
                args |-> <<res.val.quotients, Len(res.val.remainders)>>,
                after |-> <<call>>]
    /\ res' = Return(compute_expression_from_sequence(res.val.quotients,
                                                      Len(res.val.remainders)))
    /\ UNCHANGED <<calc, lists, controller>>

\* The triples (a, b, c) of elements of the field, as coefficient vectors of
\* length at most n.
FieldOperandTriples(self) ==
    LET entries == 0..Min(self.prime_modulus - 1, MaxCoefficient)
        n == get_degree(self.polynomial_modulus)
    IN  UNION {Vectors(entries, lens[1]) \X Vectors(entries, lens[2]) \X Vectors(entries, lens[3]) :
                 lens \in {t \in (0..n) \X (0..n) \X (0..n) :
                             t[1] + t[2] + t[3] <= MaxTripleLen}}

\* The left side a * (b + c) of the distributivity test.
distributive_left_side(self, a, b, c) ==
    handle_operation(self, a, handle_operation(self, b, c, ADD).val.coefficients, MULTIPLY)

\* The right side (a * b) + (a * c) of the distributivity test.
distributive_right_side(self, a, b, c) ==
    handle_operation(self,
                     handle_operation(self, a, b, MULTIPLY).val.coefficients,
                     handle_operation(self, a, c, MULTIPLY).val.coefficients,
                     ADD)

\* The five handle_operation calls of the distributivity test on (a, b, c);
\* the three caller's lists are popped by the constructor on the way.
DistributiveProperty ==
    /\ Ready
    /\ \E triple \in FieldOperandTriples(calc[1]) :
         /\ call' = Call("distributive_property", triple)
         /\ res' = Return([left_side |-> distributive_left_side(calc[1], triple[1], triple[2], triple[3]),
                           right_side |-> distributive_right_side(calc[1], triple[1], triple[2], triple[3])])
         /\ lists' = <<StripTrailing(calc[1].prime_modulus, triple[1]),
                       StripTrailing(calc[1].prime_modulus, triple[2]),
                       StripTrailing(calc[1].prime_modulus, triple[3])>>
    /\ UNCHANGED <<calc, controller>>

NextAxioms ==
    \/ ConstructCalculator
    \/ DistributiveProperty

SpecAxioms == Init /\ [][NextAxioms]_vars

\* The two steps of the Extended Euclidean Algorithm inside
\* find_multiplicative_inverse.
NextEuclid ==
    \/ ConstructCalculator
    \/ ComputeEuclideanSequence
    \/ ComputeExpressionFromSequence

SpecEuclid == Init /\ [][NextEuclid]_vars

NextField ==
    \/ ConstructCalculator
    \/ HandleOperation
    \/ HandleInverseOperation
    \/ FindMultiplicativeInverse
    \/ FindMultiplicativeInverseAfterError

SpecField == Init /\ [][NextField]_vars

\* The two entry points of division: the ring's and the calculator's.
NextDivision ==
    \/ DividedBy
    \/ ConstructCalculator
    \/ HandleOperation

SpecDivision == Init /\ [][NextDivision]_vars

\* The two places a caller's list is handed in: the constructor and
\* handle_operation.
NextLists ==
    \/ Construct
    \/ ConstructCalculator
    \/ HandleOperation

SpecLists == Init /\ [][NextLists]_vars

(***************************************************************************)
(* calculator_controller.py                                                *)
(*                                                                         *)
(* controller is the CalculatorController object and the background        *)
(* threads started on it.  An attribute holding None is <<>>, one holding  *)
(* v is <<v>>.  A Python string is the sequence of the pieces it is put    *)
(* together from.  The calls of the GUI thread (initialize_field_async,    *)
(* reset_calculator, perform_calculation) are made one after the other;    *)
(* the steps of the background threads interleave with them statement by   *)
(* statement.  The on_complete callbacks return normally.                  *)
(***************************************************************************)

\* The term appended for one nonzero coefficient in ModularPolynomial.__str__.
str_term(coeff, power) ==
    IF power = 0 THEN <<ToString(coeff)>>
    ELSE IF coeff = 1
    THEN (IF power = 1 THEN <<"x">> ELSE <<"x^", ToString(power)>>)
    ELSE (IF power = 1 THEN <<ToString(coeff), "x">>
                       ELSE <<ToString(coeff), "x^", ToString(power)>>)

\* " + ".join(terms) for the coefficients from reversed index i on.
RECURSIVE str_terms(_, _, _)
str_terms(coefficients, i, first) ==
    IF i >= Len(coefficients) THEN <<>>
    ELSE LET coeff == coefficients[Len(coefficients) - i]
             power == Len(coefficients) - 1 - i
         IN  IF coeff = 0 THEN str_terms(coefficients, i + 1, first)
             ELSE (IF first THEN <<>> ELSE <<" + ">>) \o str_term(coeff, power)
                      \o str_terms(coefficients, i + 1, FALSE)

\* str(polynomial).
str(self) ==
    IF self.coefficients = <<>> \/ \A i \in 1..Len(self.coefficients) : self.coefficients[i] = 0
    THEN <<"0 mod ", ToString(self.modulus)>>
    ELSE str_terms(self.coefficients, 0, TRUE) \o <<" mod ", ToString(self.modulus)>>

\* Most background threads started on one controller.
MaxThreads == 2

\* The (p, n) handed to initialize_field_async: 4 is not in the prime table.
ControllerInputs == {<<2, 2>>, <<3, 1>>, <<4, 1>>}

\* The vectors and the operation name handed to perform_calculation: a sum,
\* a division by zero and an operation the controller does not know.
ControllerCalculations ==
    {<<<<1, 1>>, <<0, 1>>, "add">>, <<<<1>>, <<0>>, "divide">>, <<<<1>>, <<1>>, "power">>}

ControllerCalls == {"init", "initialize_field_async", "reset_calculator", "perform_calculation"}

\* The GUI thread is between two calls on the controller.
BetweenCalls == call.name \in ControllerCalls /\ res.kind # "running"

\* The last call before this one that was not a perform_calculation.
LastChange == IF call.name = "perform_calculation" THEN call.after
              ELSE <<[call EXCEPT !.after = <<>>]>>

\* initialize_field_async(p, n, on_complete): the thread is started at the
\* top of _initialize; on_complete holds the calls made to the callback.
InitializeFieldAsync ==
    /\ BetweenCalls
    /\ Len(controller.threads) < MaxThreads
    /\ \E input \in ControllerInputs :
         /\ controller' = [controller EXCEPT !.threads =
                Append(@, [p |-> input[1], n |-> input[2], pc |-> "construct",
                           calculator |-> <<>>, modulus_string |-> <<>>,
                           on_complete |-> <<>>])]
         /\ call' = Call("initialize_field_async", input)
    /\ res' = Return(<<>>)
    /\ UNCHANGED <<calc, lists>>

\* The except branch calling on_complete a second time.
thread_construct_reporting_twice(thread) ==
    LET made == new_FiniteFieldCalculator(thread.p, thread.n)
    IN  IF made.kind = "ok"
        THEN [thread EXCEPT !.pc = "store_calculator",
                            !.calculator = <<made.val>>,
                            !.modulus_string = <<str(made.val.polynomial_modulus)>>]
        ELSE [thread EXCEPT !.pc = "done",
                            !.on_complete = <<<<"Error: ", made.msg>>, <<"Error: ", made.msg>>>>]

\* _initialize up to the stores: the calculator is constructed and its
\* modulus formatted, or the exception is reported to the callback.  Every
\* exception raised by the constructor is a ValueError.
thread_construct(thread) ==
    LET made == new_FiniteFieldCalculator(thread.p, thread.n)
    IN  IF made.kind = "ok"
        THEN [thread EXCEPT !.pc = "store_calculator",
                            !.calculator = <<made.val>>,
                            !.modulus_string = <<str(made.val.polynomial_modulus)>>]
        ELSE [thread EXCEPT !.pc = "done",
                            !.on_complete = Append(@, <<"Error: ", made.msg>>)]

ThreadConstruct ==
    /\ \E t \in 1..Len(controller.threads) :
         /\ controller.threads[t].pc = "construct"
         /\ controller' = [controller EXCEPT
                !.threads[t] = thread_construct(controller.threads[t])]
    /\ UNCHANGED <<calc, call, res, lists>>

\* self._calculator = calculator
ThreadStoreCalculator ==
    /\ \E t \in 1..Len(controller.threads) :
         /\ controller.threads[t].pc = "store_calculator"
         /\ controller' = [controller EXCEPT
                !.calculator = controller.threads[t].calculator,
                !.threads[t].pc = "store_modulus"]
    /\ UNCHANGED <<calc, call, res, lists>>

\* self._modulus_polynomial = modulus_string
ThreadStoreModulus ==
    /\ \E t \in 1..Len(controller.threads) :
         /\ controller.threads[t].pc = "store_modulus"
         /\ controller' = [controller EXCEPT
                !.modulus_polynomial = controller.threads[t].modulus_string,
                !.threads[t].pc = "complete"]
    /\ UNCHANGED <<calc, call, res, lists>>

\* on_complete(modulus_string)
ThreadComplete ==
    /\ \E t \in 1..Len(controller.threads) :
         /\ controller.threads[t].pc = "complete"
         /\ controller' = [controller EXCEPT
                !.threads[t].on_complete = Append(@, controller.threads[t].modulus_string[1]),
                !.threads[t].pc = "done"]
    /\ UNCHANGED <<calc, call, res, lists>>

\* reset_calculator, first statement: self._calculator = None.
ResetEnter ==
    /\ BetweenCalls
    /\ call.name # "init"
    /\ controller' = [controller EXCEPT !.calculator = <<>>]
    /\ call' = Call("reset_calculator", <<>>)
    /\ res' = Running([line |-> 67])
    /\ UNCHANGED <<calc, lists>>

\* reset_calculator, second statement: self._modulus_polynomial = None.
ResetReturn ==
    /\ call.name = "reset_calculator"
    /\ res.kind = "running"
    /\ controller' = [controller EXCEPT !.modulus_polynomial = <<>>]
    /\ res' = Return(<<>>)
    /\ UNCHANGED <<calc, call, lists>>

\* perform_calculation up to the call of handle_operation.
perform_calculation_enter(self, operation) ==
    IF self.calculator = <<>> THEN Return(<<"Error: No field selected">>)
    ELSE IF operation \notin FieldOperation
    THEN Return(<<"Error: Unknown operation ", operation>>)
    ELSE Running([line |-> 99])

PerformEnter ==
    /\ BetweenCalls
    /\ call.name # "init"
    /\ \E calculation \in ControllerCalculations :
         /\ call' = [name |-> "perform_calculation",
                     args |-> calculation,
                     after |-> LastChange]
         /\ res' = perform_calculation_enter(controller, calculation[3])
    /\ UNCHANGED <<calc, lists, controller>>

\* result = self._calculator.handle_operation(poly1, poly2, field_op), and the
\* string returned for it or for the exception it raised.
perform_calculation_operate(self, poly1, poly2, field_op) ==
    LET result == handle_operation(self.calculator[1], poly1, poly2, field_op)
    IN  IF result.kind = "ok" THEN Return(<<"Result: ">> \o str(result.val))
        ELSE Return(<<"Error: ", result.msg>>)

PerformOperate ==
    /\ call.name = "perform_calculation"
    /\ res.kind = "running"
    /\ res' = perform_calculation_operate(controller, call.args[1], call.args[2], call.args[3])
    /\ lists' = <<StripTrailing(controller.calculator[1].prime_modulus, call.args[1]),
                  StripTrailing(controller.calculator[1].prime_modulus, call.args[2])>>
    /\ UNCHANGED <<calc, call, controller>>

NextController ==
    \/ InitializeFieldAsync
    \/ ThreadConstruct
    \/ ThreadStoreCalculator
    \/ ThreadStoreModulus
    \/ ThreadComplete
    \/ ResetEnter
    \/ ResetReturn
    \/ PerformEnter
    \/ PerformOperate

SpecController == Init /\ [][NextController]_vars

Next ==
    \/ NextPoly
    \/ NextFinder
    \/ NextField
    \/ DistributiveProperty
    \/ ComputeEuclideanSequence
    \/ ComputeExpressionFromSequence
    \/ NextExponent
    \/ NextDivisionLoop
    \/ NextController

Spec == Init /\ [][Next]_vars

(***************************************************************************)
(* Polynomial arithmetic as mathematics, to state the claims against.      *)
(***************************************************************************)

\* The coefficient of x^k (k >= 0) of a polynomial object.
Coef(poly, k) == IF k < Len(poly.coefficients) THEN poly.coefficients[k + 1] ELSE 0

\* The coefficient of x^k of the product of two polynomials, over the integers.
RECURSIVE ConvolutionUpTo(_, _, _, _)
ConvolutionUpTo(a, b, k, i) ==
    IF i < 0 THEN 0 ELSE Coef(a, i) * Coef(b, k - i) + ConvolutionUpTo(a, b, k, i - 1)

Convolution(a, b, k) == ConvolutionUpTo(a, b, k, k)

\* Canonical form: coefficients in [0, modulus), no trailing zero except in [0].
Canonical(poly) ==
    /\ Len(poly.coefficients) >= 1
    /\ \A i \in 1..Len(poly.coefficients) :
          poly.coefficients[i] >= 0 /\ poly.coefficients[i] < poly.modulus
    /\ \/ poly.coefficients = <<0>>
       \/ poly.coefficients[Len(poly.coefficients)] # 0

IsPrime(n) == n >= 2 /\ \A k \in 2..(n - 1) : n % k # 0

(***************************************************************************)
(* Claims about the polynomial ring                                        *)
(***************************************************************************)

\* C4: for a prime modulus and a nonzero divisor b, a.divided_by(b) returns
\* (q, r) with a = b*q + r and r = 0 or deg(r) < deg(b); when deg(a) < deg(b)
\* the quotient is 0 and the remainder is a.
C4_DivisionIdentity ==
    (call.name = "divided_by"
        /\ call.args[1].modulus = call.args[2].modulus
        /\ IsPrime(call.args[1].modulus)
        /\ ~is_zero(call.args[2]))
    => LET a == call.args[1]
           b == call.args[2]
       IN  /\ res.kind = "ok"
           /\ LET q == res.val.quotient
                  r == res.val.remainder
              IN  /\ q.modulus = a.modulus /\ r.modulus = a.modulus
                  /\ \A k \in 0..(Len(a.coefficients) + Len(b.coefficients) + Len(q.coefficients)) :
                        (Convolution(b, q, k) + Coef(r, k) - Coef(a, k)) % a.modulus = 0
                  /\ (r.coefficients = <<0>> \/ Len(r.coefficients) < Len(b.coefficients))
                  /\ (Len(a.coefficients) < Len(b.coefficients)
                        => q.coefficients = <<0>> /\ r = a)

\* A division over Z/5Z by a divisor with leading coefficient 2 that takes
\* at least two iterations and leaves a nonzero remainder.
C4_Witness ==
    /\ call.name = "divided_by"
    /\ res.kind = "ok"
    /\ call.args[1].modulus = 5
    /\ Len(call.args[2].coefficients) >= 2
    /\ call.args[2].coefficients[Len(call.args[2].coefficients)] = 2
    /\ Len(res.val.quotient.coefficients) >= 2
    /\ res.val.remainder.coefficients # <<0>>

\* The polynomial objects a call has returned.
ReturnedPolynomials ==
    IF res.kind # "ok" THEN {}
    ELSE IF call.name = "divided_by" THEN {res.val.quotient, res.val.remainder}
    ELSE IF call.name \in {"ModularPolynomial", "get_copy", "get_negative", "add_to",
                           "subtract_from", "product_with"} THEN {res.val}
    ELSE {}

\* C5: every ModularPolynomial built by the constructor from a raw vector or
\* returned by an operator has its coefficients in [0, modulus) and no
\* trailing zero unless its coefficient list is exactly [0].
C5_CanonicalForm ==
    /\ \A poly \in ReturnedPolynomials : Canonical(poly)
    /\ (call.name \in {"ModularPolynomial", "get_copy", "get_negative", "add_to",
                        "subtract_from", "product_with", "divided_by"}
          /\ res.kind = "ok") => ReturnedPolynomials # {}

\* The constructor was given a vector with a negative, an oversized and a
\* trailing zero-equivalent entry.
C5_Witness ==
    /\ call.name = "ModularPolynomial"
    /\ res.kind = "ok"
    /\ Len(call.args[2]) = 3
    /\ call.args[2][1] < 0
    /\ call.args[2][2] > call.args[1]
    /\ call.args[2][3] = call.args[1]
    /\ Len(res.val.coefficients) = 2

(***************************************************************************)
(* Claims about the irreducible finder                                     *)
(***************************************************************************)

\* The monic polynomials of degree d over Z/pZ.
MonicOfDegree(p, d) ==
    {[modulus |-> p, coefficients |-> lower \o <<1>>] : lower \in Vectors(0..(p - 1), d)}

\* f = g * h over Z/pZ, for f of degree n.
IsProduct(f, g, h, n) ==
    \A k \in 0..n : (Convolution(g, h, k) - Coef(f, k)) % f.modulus = 0

\* f (monic, of degree n) has a divisor of degree d.
HasDivisorOfDegree(f, n, d) ==
    \E g \in MonicOfDegree(f.modulus, d) :
        \E h \in MonicOfDegree(f.modulus, n - d) : IsProduct(f, g, h, n)

\* C3: find_irreducible(p, n) returns a polynomial over Z/pZ that is monic, of
\* degree exactly n, and has no divisor of degree d with 1 <= d <= n/2.
C3_ReturnedModulusIrreducible ==
    call.name = "find_irreducible"
    => /\ res.kind = "ok"
       /\ res.val # None
       /\ res.val.modulus = call.args[1]
       /\ Canonical(res.val)
       /\ Len(res.val.coefficients) = call.args[2] + 1
       /\ res.val.coefficients[Len(res.val.coefficients)] = 1
       /\ \A d \in 1..(call.args[2] \div 2) : ~HasDivisorOfDegree(res.val, call.args[2], d)

\* A search of degree 4 (the modified Rabin test decides) over Z/3Z has returned.
C3_Witness ==
    /\ call.name = "find_irreducible"
    /\ call.args = <<3, 4>>
    /\ res.kind = "ok"
    /\ Len(res.val.coefficients) = 5

\* C6: for every supported input find_irreducible returns a polynomial: the
\* trinomial enumeration is never exhausted without a candidate passing the
\* test, so the function does not fall through.
C6_SearchFindsATrinomial ==
    call.name = "find_irreducible"
    => /\ res.kind = "ok"
       /\ res.val # None
       /\ (call.args[2] # 1 /\ call.args # <<2, 8>>)
            => /\ check_if_irreducible(res.val)
               /\ \E constant \in 1..(call.args[1] - 1) :
                     \E y \in 1..(call.args[1] - 1) :
                        \E z \in 1..(call.args[2] - 1) :
                           res.val = [modulus |-> call.args[1],
                                      coefficients |->
                                         [i \in 1..(call.args[2] + 1) |->
                                            IF i = 1 THEN constant
                                            ELSE IF i = z + 1 THEN y
                                            ELSE IF i = call.args[2] + 1 THEN 1
                                            ELSE 0]]

\* A search has returned a trinomial that is not the first candidate of the
\* enumeration: candidates were rejected before one passed.
C6_Witness ==
    /\ call.name = "find_irreducible"
    /\ call.args[2] >= 2
    /\ call.args # <<2, 8>>
    /\ res.kind = "ok"
    /\ res.val # None
    /\ res.val # trinomial(call.args[1], call.args[2],
                           primitive_elements(call.args[1])[1], 1, 1)

\* x multiplied by itself N times, reduced modulo f after every multiplication.
RECURSIVE PowerOfXMod(_, _)
PowerOfXMod(N, f) ==
    LET x == ModularPolynomial(f.modulus, <<0, 1>>)
        one == ModularPolynomial(f.modulus, <<1>>)
        product == IF N = 0 THEN one ELSE product_with(PowerOfXMod(N - 1, f), x).val
    IN  divided_by(product, f).val.remainder

\* C7: for every N >= 1 and every (nonzero) modulus polynomial f over a prime
\* field, compute_large_exponent_of_x(N, f) is the remainder of x^N on
\* Euclidean division by f.
C7_ExponentIsPowerMod ==
    (call.name = "compute_large_exponent_of_x" /\ ~is_zero(call.args[2]))
    => /\ res.kind = "ok"
       /\ res.val = PowerOfXMod(call.args[1], call.args[2])

\* The same, for the calls that run the loop at least once or whose modulus
\* has degree at least 2: what the code guarantees.
C7_ExponentIsPowerModPastOne ==
    (call.name = "compute_large_exponent_of_x" /\ ~is_zero(call.args[2])
        /\ (call.args[1] >= 2 \/ Len(call.args[2].coefficients) >= 3))
    => /\ res.kind = "ok"
       /\ res.val = PowerOfXMod(call.args[1], call.args[2])

\* The polynomial find_irreducible holds for GF(2^8).
HardcodedDegree8 == [modulus |-> 2, coefficients |-> <<1, 1, 0, 0, 0, 0, 1, 1, 1>>]

\* C17: find_irreducible returns x (coefficients [0, 1]) for degree 1 with any
\* modulus p, and [1, 1, 0, 0, 0, 0, 1, 1, 1] for (2, 8); neither comes from
\* the trinomial search, which yields no polynomial for these pairs; and
\* check_if_irreducible accepts the hardcoded polynomial.
C17_ShortcutsOfFindIrreducible ==
    /\ (call.name = "find_irreducible" /\ call.args[2] = 1)
         => /\ res = Return([modulus |-> call.args[1], coefficients |-> <<0, 1>>])
            /\ call.args[1] \in ModelPrimes
                 => find_irreducible_trinomial(call.args[1], 1) = None
    /\ (call.name = "find_irreducible" /\ call.args = <<2, 8>>)
         => /\ res = Return(HardcodedDegree8)
            /\ find_irreducible_trinomial(2, 8) = None
    /\ (call.name = "check_if_irreducible" /\ call.args[1] = HardcodedDegree8)
         => res = Return(TRUE)

\* The hardcoded pair has been asked for and answered with the degree-8
\* polynomial.
C17_Witness ==
    /\ call.name = "find_irreducible"
    /\ call.args = <<2, 8>>
    /\ res.kind = "ok"
    /\ Len(res.val.coefficients) = 9
    /\ res.val.coefficients[2] = 1

(***************************************************************************)
(* Claims about the calculator                                             *)
(***************************************************************************)

\* A coefficient vector lifted into Z/pZ[x] entry by entry, nothing stripped.
Lifted(p, raw) == [modulus |-> p, coefficients |-> [i \in 1..Len(raw) |-> raw[i] % p]]

\* The coefficients of the product of two polynomials, over the integers.
ProductSeq(a, b) ==
    [k \in 1..(Len(a.coefficients) + Len(b.coefficients) - 1) |-> Convolution(a, b, k - 1)]

\* The residue of the polynomial with integer coefficients c modulo M, as the
\* vector of its n = deg(M) coefficients: the leading term of c is cancelled
\* with a multiple of M until fewer than n + 1 coefficients are left.
RECURSIVE ResidueMod(_, _)
ResidueMod(c, M) ==
    LET p == M.modulus
        n == Len(M.coefficients) - 1
        len == Len(c)
    IN  IF len <= n THEN [i \in 1..n |-> IF i <= len THEN c[i] % p ELSE 0]
        ELSE LET u == CHOOSE v \in 1..(p - 1) : (v * M.coefficients[n + 1]) % p = 1
                 t == (c[len] * u) % p
                 shift == len - 1 - n
             IN  ResidueMod([i \in 1..(len - 1) |->
                                IF i > shift THEN (c[i] - t * M.coefficients[i - shift]) % p
                                ELSE c[i] % p], M)

\* The polynomial object has exactly the coefficients of the vector seq.
SameCoefficients(poly, seq) ==
    \A k \in 0..Max(Len(poly.coefficients), Len(seq)) :
        Coef(poly, k) = (IF k < Len(seq) THEN seq[k + 1] ELSE 0)

\* The field a constructed calculator works in.
FieldModulus == calc[1].polynomial_modulus
FieldPrime == calc[1].prime_modulus
FieldDim == Len(calc[1].polynomial_modulus.coefficients) - 1

\* C1: in every supported field GF(p^n), for every nonzero element a of
\* degree < n, find_multiplicative_inverse(a) returns a polynomial b over
\* Z/pZ such that a*b reduced modulo the field modulus M is the constant 1.
C1_InverseTimesElementIsOne ==
    (call.name = "find_multiplicative_inverse"
        /\ call.args[1].coefficients # <<0>>
        /\ Len(call.args[1].coefficients) <= FieldDim)
    => /\ res.kind = "ok"
       /\ res.val.modulus = FieldPrime
       /\ Canonical(res.val)
       /\ ResidueMod(ProductSeq(call.args[1], res.val), FieldModulus)
             = [i \in 1..FieldDim |-> IF i = 1 THEN 1 ELSE 0]

\* An element of degree 2 of GF(5^3) whose inverse has degree 2 and is not
\* monic.
C1_Witness ==
    /\ call.name = "find_multiplicative_inverse"
    /\ FieldPrime = 5 /\ FieldDim = 3
    /\ Len(call.args[1].coefficients) = 3
    /\ res.kind = "ok"
    /\ Len(res.val.coefficients) = 3
    /\ res.val.coefficients[3] > 1

\* The first call of a chain of two handle_operation calls.
FirstCall == call.after[1]

\* C2: in every supported field, for all elements a and all nonzero elements
\* b, both of degree < n, handle_operation(handle_operation(a, b, MULTIPLY)
\* .coefficients, b, DIVIDE) is the element a.
C2_DivisionCancelsMultiplication ==
    (call.name = "handle_operation" /\ call.after # <<>>
        /\ FirstCall.args[3] = MULTIPLY
        /\ Len(FirstCall.args[1]) <= FieldDim
        /\ Len(FirstCall.args[2]) <= FieldDim
        /\ \E i \in 1..Len(FirstCall.args[2]) : FirstCall.args[2][i] % FieldPrime # 0)
    => /\ call.args[3] = DIVIDE
       /\ res.kind = "ok"
       /\ res.val.modulus = FieldPrime
       /\ Canonical(res.val)
       /\ SameCoefficients(res.val, Lifted(FieldPrime, FirstCall.args[1]).coefficients)

\* In GF(3^2): a and b of degree 1 whose product needs reducing, divided by
\* b again.
C2_Witness ==
    /\ call.name = "handle_operation" /\ call.after # <<>>
    /\ FirstCall.args[3] = MULTIPLY
    /\ FieldPrime = 3 /\ FieldDim = 2
    /\ FirstCall.args[1] = <<1, 2>>
    /\ FirstCall.args[2] = <<2, 2>>
    /\ call.args[3] = DIVIDE
    /\ res.kind = "ok"
    /\ res.val.coefficients = <<1, 2>>

\* C8: for any two coefficient vectors, handle_operation with MULTIPLY
\* returns the remainder of the product a*b on division by M, of degree
\* below n; every result returned by DIVIDE has degree below n too.
C8_ProductIsReduced ==
    (call.name = "handle_operation")
    => LET a == Lifted(FieldPrime, call.args[1])
           b == Lifted(FieldPrime, call.args[2])
       IN  /\ call.args[3] = MULTIPLY
                => /\ res.kind = "ok"
                   /\ res.val.modulus = FieldPrime
                   /\ Canonical(res.val)
                   /\ Len(res.val.coefficients) <= FieldDim
                   /\ SameCoefficients(res.val, ResidueMod(ProductSeq(a, b), FieldModulus))
           /\ (call.args[3] = DIVIDE /\ res.kind = "ok")
                => /\ Canonical(res.val)
                   /\ Len(res.val.coefficients) <= FieldDim

\* A product of degree 2 in GF(5^2) with a nonzero remainder of degree 1.
C8_Witness ==
    /\ call.name = "handle_operation" /\ call.after = <<>>
    /\ call.args[3] = MULTIPLY
    /\ FieldPrime = 5 /\ FieldDim = 2
    /\ Len(call.args[1]) = 2 /\ call.args[1][2] = 2
    /\ Len(call.args[2]) = 2 /\ call.args[2][2] = 2
    /\ res.kind = "ok"
    /\ Len(res.val.coefficients) = 2

\* C9: handle_operation with ADD returns the coefficientwise sum a + b over
\* Z/pZ and with SUBTRACT the difference a - b (first operand minus second),
\* not reduced by M; when both operands have degree < n, so has the result.
C9_SumAndDifference ==
    (call.name = "handle_operation" /\ call.args[3] \in {ADD, SUBTRACT})
    => LET a == Lifted(FieldPrime, call.args[1])
           b == Lifted(FieldPrime, call.args[2])
           sign == IF call.args[3] = ADD THEN 1 ELSE 0 - 1
           expected == [k \in 1..Max(Len(call.args[1]), Len(call.args[2])) |->
                           (Coef(a, k - 1) + sign * Coef(b, k - 1)) % FieldPrime]
       IN  /\ res.kind = "ok"
           /\ res.val.modulus = FieldPrime
           /\ Canonical(res.val)
           /\ SameCoefficients(res.val, expected)
           /\ (Len(call.args[1]) <= FieldDim /\ Len(call.args[2]) <= FieldDim)
                 => Len(res.val.coefficients) <= FieldDim

\* A difference in GF(3^1) of operands of degree 2 and 0: the result keeps
\* degree 2, unreduced by the modulus of degree 1, and 1 - 2 is 2.
C9_Witness ==
    /\ call.name = "handle_operation"
    /\ call.args[3] = SUBTRACT
    /\ FieldPrime = 3 /\ FieldDim = 1
    /\ call.args[1] = <<1, 0, 1>>
    /\ call.args[2] = <<2>>
    /\ res.kind = "ok"
    /\ res.val.coefficients = <<2, 0, 1>>

\* C10: divided_by with a zero-polynomial divisor, and handle_operation with
\* DIVIDE whose second vector is empty or has every entry congruent to 0
\* modulo p, end in an error for every first operand and return no result.
C10_DivisionByZeroRejected ==
    /\ (call.name = "divided_by" /\ call.args[2].coefficients = <<0>>)
          => res.kind = "error"
    /\ (call.name = "handle_operation" /\ call.args[3] = DIVIDE
            /\ \A i \in 1..Len(call.args[2]) : call.args[2][i] % FieldPrime = 0)
          => res.kind = "error"

\* A division of a polynomial of degree 1 by the zero polynomial over Z/3Z.
C10_Witness ==
    /\ call.name = "divided_by"
    /\ call.args[1].modulus = 3 /\ call.args[2].modulus = 3
    /\ Len(call.args[1].coefficients) = 2
    /\ call.args[2].coefficients = <<0>>
    /\ res.kind = "error"

\* C11: find_multiplicative_inverse ends in an error if and only if its
\* argument (a polynomial over Z/pZ, of any degree) is the zero polynomial;
\* for every other argument it returns a polynomial over Z/pZ.
C11_InverseFailsOnlyOnZero ==
    (call.name = "find_multiplicative_inverse")
    => /\ (res.kind = "error") <=> (call.args[1].coefficients = <<0>>)
       /\ (res.kind = "error") => res.msg = "Zero polynomial does not have an inverse"
       /\ (call.args[1].coefficients # <<0>>)
             => /\ res.kind = "ok"
                /\ res.val.modulus = FieldPrime
                /\ Canonical(res.val)

\* The zero polynomial handed to the inverse in GF(3^2).
C11_Witness ==
    /\ call.name = "find_multiplicative_inverse"
    /\ FieldPrime = 3 /\ FieldDim = 2
    /\ call.args[1].coefficients = <<0>>
    /\ res.kind = "error"

\* C12: FiniteFieldCalculator(p, n) ends in an error exactly when p is not
\* one of the primes up to 101; a rejected p gets the table's own error (the
\* search, which fails differently on a nonpositive p, has not been started)
\* and leaves no calculator; an accepted p yields a calculator that stores p
\* and a modulus of degree n over Z/pZ.
C12_ConstructorChecksTheTable ==
    (call.name = "FiniteFieldCalculator")
    => LET p == call.args[1]
           n == call.args[2]
           supported == IsPrime(p) /\ p <= 101
       IN  /\ (res.kind = "error") <=> ~supported
           /\ ~supported => (res = Raise("Invalid modulus") /\ calc = <<>>)
           /\ supported
                 => /\ res.kind = "ok"
                    /\ calc = <<res.val>>
                    /\ res.val.prime_modulus = p
                    /\ res.val.polynomial_modulus.modulus = p
                    /\ Len(res.val.polynomial_modulus.coefficients) = n + 1

\* The constructor called with p = 0: rejected with the table's error.
C12_Witness ==
    /\ call.name = "FiniteFieldCalculator"
    /\ call.args[1] = 0
    /\ res = Raise("Invalid modulus")
    /\ calc = <<>>

\* C13: add_to, subtract_from, product_with and divided_by end in an error
\* whenever the two operands have different moduli, whatever their
\* coefficients, and return nothing.
C13_ModulusMismatchRejected ==
    (call.name \in {"add_to", "subtract_from", "product_with", "divided_by"}
        /\ call.args[1].modulus # call.args[2].modulus)
    => res.kind = "error"

\* A product of a polynomial over Z/2Z with one of degree 1 over Z/3Z.
C13_Witness ==
    /\ call.name = "product_with"
    /\ call.args[1].modulus = 2
    /\ call.args[2].modulus = 3
    /\ Len(call.args[2].coefficients) = 2
    /\ res.kind = "error"

\* C14: in every supported field, for all elements a, b, c of degree < n,
\* handle_operation's MULTIPLY(a, ADD(b, c)) equals its
\* ADD(MULTIPLY(a, b), MULTIPLY(a, c)).
C14_MultiplicationDistributes ==
    (call.name = "distributive_property")
    => /\ res.val.left_side.kind = "ok"
       /\ res.val.right_side.kind = "ok"
       /\ Canonical(res.val.left_side.val)
       /\ res.val.left_side.val.modulus = FieldPrime
       /\ res.val.left_side.val = res.val.right_side.val

\* In GF(3^2): a and b of degree 1 and a constant c, both sides of degree 1.
C14_Witness ==
    /\ call.name = "distributive_property"
    /\ FieldPrime = 3 /\ FieldDim = 2
    /\ call.args = <<<<1, 2>>, <<2, 1>>, <<1>>>>
    /\ res.val.left_side.kind = "ok"
    /\ Len(res.val.left_side.val.coefficients) = 2
    /\ res.val.left_side.val = res.val.right_side.val

\* C15: for every polynomial p, the zero polynomial included,
\* p.get_negative().get_negative() equals p and p.add_to(p.get_negative())
\* is the zero polynomial: coefficient by coefficient, p and its negative sum
\* to 0 modulo the modulus.
C15_NegationInvolutionAndInverse ==
    (call.name = "get_negative")
    => LET p == call.args[1]
           negative == res.val
       IN  /\ res.kind = "ok"
           /\ Canonical(negative)
           /\ eq(get_negative(negative), p)
           /\ add_to(p, negative, FALSE) = Return([modulus |-> p.modulus, coefficients |-> <<0>>])
           /\ \A k \in 0..Len(p.coefficients) :
                 (Coef(p, k) + Coef(negative, k)) % p.modulus = 0

\* The negative of 1 + 2x^2 over Z/5Z, which is 4 + 3x^2.
C15_Witness ==
    /\ call.name = "get_negative"
    /\ call.args[1] = [modulus |-> 5, coefficients |-> <<1, 0, 2>>]
    /\ res.kind = "ok"
    /\ res.val.coefficients = <<4, 0, 3>>

\* C16: two ModularPolynomials compare equal if and only if the moduli are
\* the same and the raw vectors, padded with zeros, agree entry by entry
\* modulo that modulus.
C16_EqualityIsSamePolynomial ==
    (call.name = "__eq__")
    => LET m0 == call.args[1]
           raw0 == call.args[2]
           m1 == call.args[3]
           raw1 == call.args[4]
           entry(raw, k) == IF k <= Len(raw) THEN raw[k] ELSE 0
       IN  res.val <=> (m0 = m1 /\ \A k \in 1..Max(Len(raw0), Len(raw1)) :
                                      (entry(raw0, k) - entry(raw1, k)) % m0 = 0)

\* Over Z/3Z, [-1, 3] and [2] are the same polynomial.
C16_Witness ==
    /\ call.name = "__eq__"
    /\ call.args = <<3, <<0 - 1, 3>>, 3, <<2>>>>
    /\ res.val = TRUE


C19_CallerListsUntouched ==
    /\ call.name = "ModularPolynomial" => lists = <<call.args[2]>>
    /\ (call.name = "handle_operation" /\ call.after = <<>>)
         => lists = <<call.args[1], call.args[2]>>


\* The polynomials of degree d over Z/pZ with the leading coefficient of f.
CofactorsOfDegree(f, d) ==
    {[modulus |-> f.modulus, coefficients |-> lower \o <<get_lead_coefficient(f)>>] :
        lower \in Vectors(0..(f.modulus - 1), d)}

\* f has a divisor of degree d: a monic one times a cofactor gives f.
HasFactorOfDegree(f, d) ==
    \E g \in MonicOfDegree(f.modulus, d) :
        \E h \in CofactorsOfDegree(f, get_degree(f) - d) : IsProduct(f, g, h, get_degree(f))

\* The sum of the terms of f at the integer a from the term of x^k on, where
\* power is a^k.
RECURSIVE ValueFrom(_, _, _, _)
ValueFrom(f, a, k, power) ==
    IF k > get_degree(f) THEN 0
    ELSE Coef(f, k) * power + ValueFrom(f, a, k + 1, power * a)

HasRoot(f) == \E a \in 0..(f.modulus - 1) : ValueFrom(f, a, 0, 1) % f.modulus = 0

\* C20: for a polynomial f of degree >= 1 over Z/pZ, p prime,
\* check_if_irreducible returns true exactly when f has no divisor of degree d
\* with 1 <= d < deg(f); for degrees 2 and 3 that is exactly when f has no root
\* in Z/pZ.
C20_IrreducibilityTestExact ==
    (call.name = "check_if_irreducible" /\ get_degree(call.args[1]) >= 1)
    => /\ res = Return(~ \E d \in 1..(get_degree(call.args[1]) - 1) :
                            HasFactorOfDegree(call.args[1], d))
       /\ get_degree(call.args[1]) \in {2, 3} => res = Return(~HasRoot(call.args[1]))

\* (x^3 + x + 1)(x^2 + x + 1)(x + 1) over Z/2Z, which passes the modified Rabin
\* test of degree 6, has been rejected.
C20_Witness ==
    /\ call.name = "check_if_irreducible"
    /\ call.args[1] = [modulus |-> 2, coefficients |-> <<1, 1, 0, 0, 1, 0, 1>>]
    /\ check_if_high_degree_irreducible(call.args[1], 6)
    /\ res = Return(FALSE)

(***************************************************************************)
(* Claims about the Extended Euclidean Algorithm                           *)
(***************************************************************************)

\* Polynomials over Z/pZ as mathematics: coefficient lists reduced modulo p,
\* trailing zeros allowed, compared coefficient by coefficient.
RingProduct(a, b) ==
    [modulus |-> a.modulus,
     coefficients |-> [k \in 1..(Len(a.coefficients) + Len(b.coefficients) - 1) |->
                          Convolution(a, b, k - 1) % a.modulus]]

RingDifference(a, b) ==
    [modulus |-> a.modulus,
     coefficients |-> [k \in 1..Max(Len(a.coefficients), Len(b.coefficients)) |->
                          (Coef(a, k - 1) - Coef(b, k - 1)) % a.modulus]]

RingOne(p) == [modulus |-> p, coefficients |-> <<1>>]

RingZero(p) == [modulus |-> p, coefficients |-> <<0>>]

SamePolynomial(a, b) ==
    /\ a.modulus = b.modulus
    /\ \A k \in 0..Max(Len(a.coefficients), Len(b.coefficients)) : Coef(a, k) = Coef(b, k)

\* s_i of the quotient list Q: s_1 = -q_1, s_2 = q_1 * q_2 + 1 and
\* s_i = s_(i-2) - q_i * s_(i-1) from i = 3 on.
RECURSIVE BackSubstitution(_, _)
BackSubstitution(Q, i) ==
    IF i = 1 THEN RingDifference(RingZero(Q[1].modulus), Q[1])
    ELSE IF i = 2
    THEN RingDifference(RingProduct(Q[1], Q[2]),
                        RingDifference(RingZero(Q[1].modulus), RingOne(Q[1].modulus)))
    ELSE RingDifference(BackSubstitution(Q, i - 2),
                        RingProduct(Q[i], BackSubstitution(Q, i - 1)))

\* The same with s_i = q_i * s_(i-1) - s_(i-2) from i = 3 on.
RECURSIVE BackSubstitutionAsStated(_, _)
BackSubstitutionAsStated(Q, i) ==
    IF i <= 2 THEN BackSubstitution(Q, i)
    ELSE RingDifference(RingProduct(Q[i], BackSubstitutionAsStated(Q, i - 1)),
                        BackSubstitutionAsStated(Q, i - 2))

\* C21 (as stated): _compute_expression_from_sequence on Q = (q_1, ..., q_k)
\* returns s_k, where s_1 = -q_1, s_2 = q_1 * q_2 + 1 and
\* s_i = q_i * s_(i-1) - s_(i-2) for i = 3..k.
C21_BackSubstitutionAsStated ==
    call.name = "_compute_expression_from_sequence"
    => /\ res.kind = "ok"
       /\ SamePolynomial(res.val, BackSubstitutionAsStated(call.args[1], call.args[2]))

\* C21 (amended): _compute_expression_from_sequence on Q = (q_1, ..., q_k)
\* returns s_k, where s_1 = -q_1, s_2 = q_1 * q_2 + 1 and
\* s_i = s_(i-2) - q_i * s_(i-1) for i = 3..k; every entry of
\* intermediate_expressions is the s_i of its index.
C21_BackSubstitution ==
    call.name = "_compute_expression_from_sequence"
    => /\ res.kind = "ok"
       /\ call.args[2] = Len(call.args[1])
       /\ Len(intermediate_expressions(call.args[1], call.args[2])) = call.args[2]
       /\ \A i \in 1..call.args[2] :
             SamePolynomial(intermediate_expressions(call.args[1], call.args[2])[i],
                            BackSubstitution(call.args[1], i))
       /\ SamePolynomial(res.val, BackSubstitution(call.args[1], call.args[2]))

\* A quotient list of length 3 over Z/3Z, where the two recurrences differ,
\* has been back-substituted.
C21_Witness ==
    /\ call.name = "_compute_expression_from_sequence"
    /\ call.args[2] = 3
    /\ call.args[1][1].modulus = 3
    /\ res.kind = "ok"
    /\ ~SamePolynomial(res.val, BackSubstitutionAsStated(call.args[1], 3))

\* The polynomial whose Euclidean sequence was back-substituted, and the
\* remainders of that sequence.
EuclidArgument == call.after[1].args[1]

EuclidRemainders == compute_euclidean_sequence(calc[1], EuclidArgument).remainders

\* The residue modulo the field modulus of the product of two polynomials.
ProductResidue(a, b) == ResidueMod(ProductSeq(a, b), FieldModulus)

\* C22: for a non-constant a of degree < n, with r_(i+1) the i-th remainder of
\* the Euclidean sequence of M and a, every intermediate expression s_i has
\* s_i * a = r_(i+1) modulo M; so s_k * a is the final constant remainder
\* modulo M, and s_k times the inverse of that constant is the inverse of a:
\* what find_multiplicative_inverse returns.
C22_BezoutInvariant ==
    (call.name = "_compute_expression_from_sequence"
        /\ get_degree(EuclidArgument) < FieldDim)
    => /\ \A i \in 1..call.args[2] :
             ProductResidue(intermediate_expressions(call.args[1], call.args[2])[i],
                            EuclidArgument)
                = ResidueMod(EuclidRemainders[i].coefficients, FieldModulus)
       /\ is_constant(EuclidRemainders[call.args[2]])
       /\ ProductResidue(res.val, EuclidArgument)
             = ResidueMod(EuclidRemainders[call.args[2]].coefficients, FieldModulus)
       /\ ProductResidue(RingProduct(res.val,
                                     find_constant_inverse(calc[1],
                                                           EuclidRemainders[call.args[2]])),
                         EuclidArgument)
             = [i \in 1..FieldDim |-> IF i = 1 THEN 1 ELSE 0]
       /\ ProductResidue(find_multiplicative_inverse(calc[1], EuclidArgument).val,
                         EuclidArgument)
             = [i \in 1..FieldDim |-> IF i = 1 THEN 1 ELSE 0]

\* Three expressions have been built in GF(5^4), the final remainder being a
\* constant other than 1.
C22_Witness ==
    /\ call.name = "_compute_expression_from_sequence"
    /\ FieldPrime = 5 /\ FieldDim = 4
    /\ call.args[2] = 3
    /\ get_degree(EuclidArgument) = 3
    /\ EuclidRemainders[3].coefficients = <<3>>

\* C23: for the irreducible modulus M of degree n and a non-constant a of
\* degree < n, _compute_euclidean_sequence returns (after at most deg(a)
\* divisions); the two lists have the same length; the last remainder is the
\* first constant one and is not zero; and the degrees of the remainders
\* decrease strictly, starting below deg(a).
C23_EuclideanSequenceStops ==
    (call.name = "_compute_euclidean_sequence" /\ get_degree(call.args[1]) < FieldDim)
    => /\ res.kind = "ok"
       /\ Len(res.val.quotients) = Len(res.val.remainders)
       /\ Len(res.val.remainders) >= 1
       /\ Len(res.val.remainders) <= get_degree(call.args[1])
       /\ is_constant(res.val.remainders[Len(res.val.remainders)])
       /\ ~is_zero(res.val.remainders[Len(res.val.remainders)])
       /\ \A i \in 1..(Len(res.val.remainders) - 1) : ~is_constant(res.val.remainders[i])
       /\ get_degree(res.val.remainders[1]) < get_degree(call.args[1])
       /\ \A i \in 2..Len(res.val.remainders) :
             get_degree(res.val.remainders[i]) < get_degree(res.val.remainders[i - 1])

\* A sequence of three divisions in GF(3^4): remainders of degrees 2, 1, 0.
C23_Witness ==
    /\ call.name = "_compute_euclidean_sequence"
    /\ FieldPrime = 3 /\ FieldDim = 4
    /\ get_degree(call.args[1]) = 3
    /\ res.kind = "ok"
    /\ Len(res.val.remainders) = 3
    /\ get_degree(res.val.remainders[1]) = 2
    /\ get_degree(res.val.remainders[2]) = 1

(***************************************************************************)
(* Claims about the trinomial search and the exponentiation                *)
(***************************************************************************)

\* The multiplicative order of c modulo p, for c prime to p.
MultiplicativeOrder(c, p) ==
    CHOOSE k \in 1..p : c ^ k % p = 1 /\ \A j \in 1..(k - 1) : c ^ j % p # 1

PrimitiveElements(p) == {c \in 1..(p - 1) : MultiplicativeOrder(c, p) = p - 1}

\* The elements of a set of integers in ascending order.
RECURSIVE Ascending(_)
Ascending(S) ==
    IF S = {} THEN <<>>
    ELSE LET least == CHOOSE m \in S : \A o \in S : m <= o
         IN  <<least>> \o Ascending(S \ {least})

\* The constants of the outer loop: the primitive elements, then 1.
SearchConstants(p) == Ascending(PrimitiveElements(p)) \o <<1>>

\* The candidate x^d + y * x^k + c.
Candidate(p, d, c, y, k) ==
    [modulus |-> p,
     coefficients |-> [i \in 1..(d + 1) |->
                          IF i = 1 THEN c
                          ELSE IF i = k + 1 THEN y
                          ELSE IF i = d + 1 THEN 1
                          ELSE 0]]

\* The positions of the three nested loops: (index of the constant, y, k).
SearchPositions(p, d) ==
    (1..Len(SearchConstants(p))) \X (1..(p - 1)) \X (1..(d - 1))

\* Position s is reached before position t.
Earlier(s, t) ==
    \/ s[1] < t[1]
    \/ s[1] = t[1] /\ s[2] < t[2]
    \/ s[1] = t[1] /\ s[2] = t[2] /\ s[3] < t[3]

CandidateAt(p, d, t) == Candidate(p, d, SearchConstants(p)[t[1]], t[2], t[3])

\* C24: find_irreducible_trinomial(p, d) returns the first candidate
\* x^d + y * x^k + c that passes check_if_irreducible, in the order c over the
\* primitive elements ascending and then 1, y over 1..p-1, k over 1..d-1 (the
\* innermost); no earlier candidate passes; it returns no polynomial only
\* when none passes; every candidate has d + 1 coefficients, the last one 1.
C24_FirstTrinomialInOrder ==
    call.name = "find_irreducible_trinomial"
    => /\ res.kind = "ok"
       /\ \/ /\ res.val = None
             /\ \A t \in SearchPositions(call.args[1], call.args[2]) :
                   ~check_if_irreducible(CandidateAt(call.args[1], call.args[2], t))
          \/ \E t \in SearchPositions(call.args[1], call.args[2]) :
                /\ res.val = CandidateAt(call.args[1], call.args[2], t)
                /\ check_if_irreducible(res.val)
                /\ \A s \in SearchPositions(call.args[1], call.args[2]) :
                      Earlier(s, t)
                      => ~check_if_irreducible(CandidateAt(call.args[1], call.args[2], s))
       /\ \A c \in 1..Len(primitive_elements(call.args[1]) \o <<1>>) :
             \A y \in 1..(call.args[1] - 1) :
                \A z \in 1..(call.args[2] - 1) :
                   /\ Len(trinomial(call.args[1], call.args[2],
                                    (primitive_elements(call.args[1]) \o <<1>>)[c],
                                    y, z).coefficients) = call.args[2] + 1
                   /\ get_lead_coefficient(
                          trinomial(call.args[1], call.args[2],
                                    (primitive_elements(call.args[1]) \o <<1>>)[c],
                                    y, z)) = 1

\* The search of degree 2 over Z/11Z has returned x^2 + 2x + 2, the candidate
\* of the second round of the middle loop, after x^2 + x + 2 failed the test.
C24_Witness ==
    /\ call.name = "find_irreducible_trinomial"
    /\ call.args = <<11, 2>>
    /\ res = Return([modulus |-> 11, coefficients |-> <<2, 2, 1>>])
    /\ ~check_if_irreducible([modulus |-> 11, coefficients |-> <<2, 1, 1>>])

\* The loop of compute_large_exponent_of_x is being run on a polynomial other
\* than zero (division by the zero polynomial raises in the first iteration).
InLoop == call.name = LoopCall /\ ~is_zero(call.args[2]) /\ res.kind = "running"

\* The history exponents that fit into what is missing at this point.
FittingExponents ==
    {res.st.expression_record[i].power : i \in 1..Len(res.st.expression_record)}
        \cap (1..(call.args[1] - res.st.power))

\* What holds at every point of the loop: nothing was raised; the exponent is
\* at most N; the exponents of the history increase strictly in insertion
\* order; where a composition is due (e < N < 2e) an entry with e' <= N - e
\* exists; and no squaring has followed a composition.
ExponentLoopSafe ==
    InLoop
    => /\ res.st.raised.kind = "none"
       /\ res.st.power >= 1
       /\ res.st.power <= call.args[1]
       /\ \A i \in 2..Len(res.st.expression_record) :
             res.st.expression_record[i].power > res.st.expression_record[i - 1].power
       /\ (res.st.power < call.args[1] /\ 2 * res.st.power > call.args[1])
            => FittingExponents # {}
       /\ \A i \in 1..Len(call.after) :
             /\ call.after[i].branch \in {"square", "compose"}
             /\ \A j \in 1..(i - 1) : call.after[j].branch = "compose"
                                        => call.after[i].branch = "compose"

\* What every iteration does: the exponent grows, so the loop is left after
\* fewer than N iterations; a composition (2e > N) adds the largest fitting
\* history exponent and leaves the history alone; a squaring doubles the
\* exponent and adds an entry.
ExponentLoopIteration ==
    (InLoop /\ res'.kind = "running")
    => /\ res'.st.power > res.st.power
       /\ IF 2 * res.st.power > call.args[1]
          THEN /\ res'.st.expression_record = res.st.expression_record
               /\ res'.st.power - res.st.power \in FittingExponents
               /\ \A e \in FittingExponents : e <= res'.st.power - res.st.power
          ELSE /\ res'.st.power = 2 * res.st.power
               /\ Len(res'.st.expression_record) = Len(res.st.expression_record) + 1
               /\ res'.st.expression_record[Len(res'.st.expression_record)].power
                     = res'.st.power

\* The loop is left by returning, with the running exponent exactly N.
ExponentLoopExit ==
    (InLoop /\ res'.kind # "running") => (res'.kind = "ok" /\ res.st.power = call.args[1])

\* C25: for every N >= 1 the loop of compute_large_exponent_of_x ends (the
\* exponent grows in every iteration and never exceeds N) and the call returns
\* with the running exponent exactly N; every composition step (2e > N) finds
\* a history entry with e' <= N - e and takes the largest, the history
\* exponents increase strictly in insertion order, and no squaring follows a
\* composition.
C25_ExponentLoopReachesN ==
    /\ []ExponentLoopSafe
    /\ [][ExponentLoopIteration /\ ExponentLoopExit]_vars

\* The call with N = 7 has returned after two squarings and two compositions:
\* 1, 2, 4, then 4 + 2 and 6 + 1.
C25_Witness ==
    /\ call.name = LoopCall
    /\ call.args[1] = 7
    /\ get_degree(call.args[2]) = 2
    /\ res.kind = "ok"
    /\ Len(call.after) = 4
    /\ call.after[3] = [branch |-> "compose", power |-> 6]
    /\ call.after[4] = [branch |-> "compose", power |-> 7]

(***************************************************************************)
(* Claims about the long-division loop                                     *)
(***************************************************************************)

\* The loop of divided_by is being run (the moduli agree, the divisor is not
\* zero) over a prime modulus.
InDivisionLoop ==
    /\ call.name = DivisionLoopCall
    /\ res.kind = "running"
    /\ IsPrime(call.args[1].modulus)

\* a = b * quotient + remainder, coefficient by coefficient modulo p.
DivisionRelation(a, b, st) ==
    \A k \in 0..(Len(a.coefficients) + Len(b.coefficients) + Len(st.quotient.coefficients)) :
        (Convolution(b, st.quotient, k) + Coef(st.remainder, k) - Coef(a, k)) % a.modulus = 0

\* At every point of the loop the relation holds and at most
\* deg(a) - deg(b) + 1 iterations have been made.
DivisionLoopSafe ==
    InDivisionLoop
    => /\ DivisionRelation(call.args[1], call.args[2], res.st)
       /\ Len(call.after) <= Max(0, get_degree(call.args[1]) - get_degree(call.args[2]) + 1)

\* Every iteration makes the remainder zero or lowers its degree.
DivisionLoopIteration ==
    (InDivisionLoop /\ res'.kind = "running")
    => \/ is_zero(res'.st.remainder)
       \/ get_degree(res'.st.remainder) < get_degree(res.st.remainder)

\* C26: for a prime modulus and a nonzero divisor b, every iteration of the
\* long-division loop of divided_by either makes the remainder zero or lowers
\* its degree, at most deg(a) - deg(b) + 1 iterations run (so the loop ends),
\* and a = b * quotient + remainder holds before the loop and after every
\* iteration.
C26_DivisionLoopEnds ==
    /\ []DivisionLoopSafe
    /\ [][DivisionLoopIteration]_vars

\* A division of a polynomial of degree 3 over Z/5Z by a constant has made
\* deg(a) - deg(b) + 1 = 4 iterations, entered with remainders of degrees
\* 3, 2, 1, 0, and has returned.
C26_Witness ==
    /\ call.name = DivisionLoopCall
    /\ call.args[1].modulus = 5
    /\ get_degree(call.args[1]) = 3
    /\ get_degree(call.args[2]) = 0
    /\ call.after = <<3, 2, 1, 0>>
    /\ res.kind = "ok"

(***************************************************************************)
(* Claims about the primitive-element test                                 *)
(***************************************************************************)

PrimitiveCall == call.name = "check_if_primitive" /\ res.kind = "ok"

\* C27: for a prime p and every c in 1..p-1, check_if_primitive(c, p) ends,
\* after at most p - 1 values of the loop, and returns true exactly when the
\* multiplicative order of c modulo p is p - 1; so 1 is not primitive for a
\* prime p >= 3, and the primitive elements are {2, 3} modulo 5 and {3, 5}
\* modulo 7.
C27_PrimitiveIffFullOrder ==
    PrimitiveCall =>
        LET c == call.args[1]
            p == call.args[2]
        IN  /\ order_loop(c, p, c, 1) \in 1..(p - 1)
            /\ res.val = (MultiplicativeOrder(c, p) = p - 1)
            /\ (c = 1 /\ p >= 3 => res.val = FALSE)
            /\ (p = 5 => (res.val = (c \in {2, 3})))
            /\ (p = 7 => (res.val = (c \in {3, 5})))

\* check_if_primitive(5, 7) has returned true: 5 has order 6 modulo 7.
C27_Witness ==
    /\ PrimitiveCall
    /\ call.args = <<5, 7>>
    /\ res.val = TRUE
    /\ MultiplicativeOrder(5, 7) = 6

(***************************************************************************)
(* Claims about the controller                                             *)
(***************************************************************************)

\* reset_calculator has returned and no initialize_field_async was called
\* since: it is the last call, or only perform_calculation calls followed it.
ResetWasLast ==
    \/ call.name = "reset_calculator" /\ res.kind = "ok"
    \/ /\ call.name = "perform_calculation"
       /\ call.after # <<>>
       /\ call.after[1].name = "reset_calculator"

\* C28: once reset_calculator has been called and no initialize_field_async
\* is started afterwards, the controller holds no calculator and
\* perform_calculation returns 'Error: No field selected', also when an
\* initialization started before the reset completes after it.
C28_ResetLeavesNoCalculator ==
    ResetWasLast =>
        /\ controller.calculator = <<>>
        /\ call.name = "perform_calculation" => res = Return(<<"Error: No field selected">>)

\* The thread t reported a failure: its constructor raised.
FailedThread(t) ==
    /\ t <= Len(controller.threads)
    /\ new_FiniteFieldCalculator(controller.threads[t].p, controller.threads[t].n).kind = "error"

ErrorString(string) == string[1] \in {"Error: ", "Unexpected error: "}

\* A thread whose constructor raises never stores anything; once it is over
\* it has called on_complete once, with an error string, and before that not
\* at all.
FailedThreadsReport ==
    \A t \in 1..MaxThreads :
        FailedThread(t) =>
            LET thread == controller.threads[t]
            IN  /\ thread.pc \in {"construct", "done"}
                /\ thread.pc = "construct" => thread.on_complete = <<>>
                /\ thread.pc = "done" =>
                      /\ Len(thread.on_complete) = 1
                      /\ ErrorString(thread.on_complete[1])

\* The step in which a thread's constructor raises leaves the stored
\* calculator and modulus string as they were.
FailedThreadsStoreNothing ==
    \A t \in 1..MaxThreads :
        (/\ FailedThread(t)
         /\ controller.threads[t].pc = "construct"
         /\ controller'.threads[t].pc = "done")
            => /\ controller'.calculator = controller.calculator
               /\ controller'.modulus_polynomial = controller.modulus_polynomial

\* perform_calculation computes in the field of the calculator stored when
\* it calls handle_operation.
PerformUsesStoredField ==
    (call.name = "perform_calculation" /\ res.kind = "running" /\ res'.kind = "ok")
        => /\ controller.calculator # <<>>
           /\ res'.val[1] = "Result: "
                 => res'.val[Len(res'.val)] = ToString(controller.calculator[1].prime_modulus)

\* C29: when the background initialization fails (p not in the prime table),
\* on_complete is called exactly once, with a string starting with 'Error: '
\* or 'Unexpected error: ', and the stored calculator and modulus string are
\* left as they were, so that a field initialised before remains the one
\* perform_calculation computes in.
C29_FailedInitializationChangesNothing ==
    /\ []FailedThreadsReport
    /\ [][FailedThreadsStoreNothing /\ PerformUsesStoredField]_vars

\* GF(2^2) was initialised, a later initialization with p = 4 has failed and
\* reported 'Error: Invalid modulus' once, and perform_calculation then
\* added x + 1 and x in GF(2^2): 'Result: 1 mod 2'.
C29_Witness ==
    /\ Len(controller.threads) = 2
    /\ controller.threads[1].p = 2 /\ controller.threads[1].pc = "done"
    /\ controller.threads[2].p = 4 /\ controller.threads[2].pc = "done"
    /\ controller.threads[2].on_complete = <<<<"Error: ", "Invalid modulus">>>>
    /\ controller.calculator = controller.threads[1].calculator
    /\ controller.modulus_polynomial = <<<<"x^", "2", " + ", "x", " + ", "1", " mod ", "2">>>>
    /\ call.name = "perform_calculation"
    /\ call.after[1].name = "initialize_field_async" /\ call.after[1].args = <<4, 1>>
    /\ call.args = <<<<1, 1>>, <<0, 1>>, "add">>
    /\ res = Return(<<"Result: ", "1", " mod ", "2">>)

(***************************************************************************)
(* Claims about division by vectors of any length                          *)
(***************************************************************************)

\* A handle_operation(a, b, DIVIDE) call made on a new calculator.
DivideCall ==
    /\ call.name = "handle_operation"
    /\ call.after = <<>>
    /\ call.args[3] = DIVIDE

\* The residue modulo the field modulus of a lifted coefficient vector.
ResidueOf(raw) == ResidueMod(Lifted(FieldPrime, raw).coefficients, FieldModulus)

ZeroResidue == [i \in 1..FieldDim |-> 0]

\* The lifted vector is a nonzero polynomial divisible by M.
NonzeroMultipleOfModulus(raw) ==
    /\ \E i \in 1..Len(raw) : raw[i] % FieldPrime # 0
    /\ ResidueOf(raw) = ZeroResidue

\* C30: field division is sound for input vectors of any length: whenever
\* handle_operation(a, b, DIVIDE) returns q, q*b = a modulo M; and it returns
\* no result when the lifted b is a nonzero polynomial divisible by M.
C30_DivisionSoundForAnyLength ==
    DivideCall =>
        /\ res.kind = "ok" =>
              ProductResidue(res.val, Lifted(FieldPrime, call.args[2])) = ResidueOf(call.args[1])
        /\ NonzeroMultipleOfModulus(call.args[2]) => res.kind = "error"

====
